---- MODULE Spec2Model ----
(***************************************************************************)
(* A model of the chronicle provenance ledger: the provenance model and    *)
(* its apply algorithm (common/src/models.rs), the address / state-delta   *)
(* protocol (common/src/ledger.rs, sawtooth-tp/src/tp.rs,                  *)
(* sawtooth-protocol/src/messaging.rs) and the single-writer command       *)
(* pipeline with its projection (api/src/lib.rs, api/src/persistence).     *)
(***************************************************************************)
EXTENDS Integers, Sequences, FiniteSets, TLC

VARIABLES
    model,      \* ProvModel: the model the operations are applied to
    prev,       \* the model before the last apply
    lastOp,     \* the ChronicleTransaction applied last
    nops,       \* number of operations applied so far
    life,       \* observer: progress of create -> start -> end per activity
    ledger,     \* per replica, an InMemLedger: kv, head and the sent state updates
    lastBatch,  \* the vector of transactions of the last InMemLedger::submit
    lastOutputs,\* per replica and transaction of lastBatch: the StateOutputs of process
    ntx,        \* number of transactions submitted so far
    ledgerPrev, \* per replica, the InMemLedger when the last submit was called
    lastResult, \* per replica, what the last submit returned
    request,    \* the TpProcessRequest in flight to the transaction processor
    ctx,        \* the TransactionContext: validator state and events
    tpPrev,     \* ctx when the last ChronicleTransactionHandler::apply began
    tpCalls,    \* the context calls made by the last apply, in order
    tpResult,   \* what the last apply returned, and where it stopped
    nreq,       \* number of requests made so far
    mailbox,    \* the mpsc channel of (command, reply sender) pairs of the Api actor
    actor,      \* the Api actor: where it is in the command it handles
    store,      \* persistence::Store, the projection
    trace,      \* observer: the steps the actor has taken, each with its command
    replies,    \* what each caller has received on its reply channel
    dropped,    \* the callers that dropped their reply receiver
    replyErrors,\* the commands whose reply.send returned an error, as logged
    handles,    \* number of ApiDispatch handles held outside the actor
    apiLedger,  \* the batches the ledger writer has accepted
    nsent,      \* number of commands dispatched so far
    uuidsUsed,  \* number of uuids the uuid source has handed out
    proj,       \* persistence::Store of an Api whose commands are followed one by one
    projPrev,   \* proj when the last command began
    hist,       \* the commands handled so far, each with what it returned, the name
                \* it chose and the number of activity rows it began with
    projUuids,  \* number of uuids handed out to these commands
    addressed,  \* per replica, the address computed for each LedgerAddress so far
    ledgersync, \* the ledgersync table of a Store: the sync_time of each offset
    syncNow,    \* the time Utc::now() returned last
    lastOffset, \* observer: the offset of the most recent set_last_offset call
    nsync,      \* number of set_last_offset calls so far
    policyState,\* the state entries of the policy processor, by address
    npolicy     \* number of writes to them so far

modelVars == <<model, prev, lastOp, nops, life>>
ledgerVars == <<ledger, lastBatch, lastOutputs, ntx, ledgerPrev, lastResult>>
tpVars == <<request, ctx, tpPrev, tpCalls, tpResult, nreq>>
apiVars == <<mailbox, actor, store, trace, replies, apiLedger, nsent, uuidsUsed,
             dropped, replyErrors, handles>>
projVars == <<proj, projPrev, hist, projUuids>>
addrVars == <<addressed>>
syncVars == <<ledgersync, syncNow, lastOffset, nsync>>
policyVars == <<policyState, npolicy>>

vars == <<model, prev, lastOp, nops, life, ledger, lastBatch, lastOutputs, ntx,
          ledgerPrev, lastResult,
          request, ctx, tpPrev, tpCalls, tpResult, nreq,
          mailbox, actor, store, trace, replies, apiLedger, nsent, uuidsUsed,
          dropped, replyErrors, handles,
          proj, projPrev, hist, projUuids, addressed,
          ledgersync, syncNow, lastOffset, nsync, policyState, npolicy>>

(***************************************************************************)
(* Bounds and value domains                                                *)
(***************************************************************************)
MaxOps == 3

NsNames == {"ns1", "ns2"}
Uuids == {"u1"}
AgentNames == {"ag1", "ag2"}
ActivityNames == {"act1"}
EntityNames == {"ent1"}
Times == {1, 2}
PublicKeys == {"k1", "k2"}
Signatures == {"s1", "s2"}

\* Option<T>: None is the empty sequence, Some(x) a sequence of one element
None == <<>>
Some(x) == <<x>>
IsSome(o) == Len(o) = 1
Unwrap(o) == o[1]

\* the attachments offered: one without and one with a locator
Locators == {None, Some("loc")}
LocatorOf(s) == IF s = "s1" THEN None ELSE Some("loc")

(***************************************************************************)
(* Identifiers: "chronicle:<kind>:<name>[:<uuid>]", kept as the sequence   *)
(* of their ':'-separated parts, which is what decompose() splits them in. *)
(***************************************************************************)
NamespaceIdOf(name, uuid) == <<"chronicle", "ns", name, uuid>>
AgentIdOf(name) == <<"chronicle", "agent", name>>
ActivityIdOf(name) == <<"chronicle", "activity", name>>
EntityIdOf(name) == <<"chronicle", "entity", name>>

NamespaceIds == {NamespaceIdOf(n, u) : n \in NsNames, u \in Uuids}
AgentIds == {AgentIdOf(n) : n \in AgentNames}
ActivityIds == {ActivityIdOf(n) : n \in ActivityNames}
EntityIds == {EntityIdOf(n) : n \in EntityNames}

\* NamespaceId::decompose: (name, uuid) = parts 3 and 4
NamespaceDecompose(ns) == <<ns[3], ns[4]>>
\* AgentId/ActivityId/EntityId::decompose: name = part 3
Decompose(id) == id[3]

(***************************************************************************)
(* HashMap helpers                                                         *)
(***************************************************************************)
EmptyMap == [k \in {} |-> None]
ContainsKey(f, k) == k \in DOMAIN f
\* HashMap::insert: the value under k is replaced
Insert(f, k, v) == [x \in (DOMAIN f) \cup {k} |-> IF x = k THEN v ELSE f[x]]
\* entry(k).or_insert(HashSet::new()).insert(v)
EntryInsert(f, k, v) ==
    Insert(f, k, (IF ContainsKey(f, k) THEN f[k] ELSE {}) \cup {v})

(***************************************************************************)
(* ProvModel and its resources                                             *)
(***************************************************************************)
Namespace(id, uuid, name) == [id |-> id, uuid |-> uuid, name |-> name]
Agent(id, ns, name, publickey) ==
    [id |-> id, namespaceid |-> ns, name |-> name, publickey |-> publickey]
\* Activity::new: started and ended are None
Activity(id, ns, name) ==
    [id |-> id, namespaceid |-> ns, name |-> name, started |-> None, ended |-> None]
\* Entity::unsigned
EntityUnsigned(id, ns, name) ==
    [kind |-> "Unsigned", id |-> id, namespaceid |-> ns, name |-> name]
\* Entity::sign: id, namespace and name are kept, the signature is replaced
EntitySign(e, signature, locator, time) ==
    [kind |-> "Signed", id |-> e.id, namespaceid |-> e.namespaceid, name |-> e.name,
     signature |-> signature, locator |-> locator, signature_time |-> time]

\* ProvModel::default
EmptyModel ==
    [namespaces |-> EmptyMap, agents |-> EmptyMap, activities |-> EmptyMap,
     entities |-> EmptyMap, was_associated_with |-> EmptyMap,
     was_attributed_to |-> EmptyMap, was_generated_by |-> EmptyMap, used |-> EmptyMap]

\* ProvModel::namespace_context: the namespace is (re)inserted from its id
namespace_context(m, ns) ==
    [m EXCEPT !.namespaces =
        Insert(m.namespaces, ns,
               Namespace(ns, NamespaceDecompose(ns)[2], NamespaceDecompose(ns)[1]))]

(***************************************************************************)
(* ChronicleTransaction: the operations                                    *)
(***************************************************************************)
CreateNamespaceOps ==
    {[type |-> "CreateNamespace", id |-> NamespaceIdOf(n, u), name |-> n, uuid |-> u] :
        n \in NsNames, u \in Uuids}
CreateAgentOps ==
    {[type |-> "CreateAgent", namespace |-> ns, name |-> n, id |-> AgentIdOf(n)] :
        ns \in NamespaceIds, n \in AgentNames}
RegisterKeyOps ==
    {[type |-> "RegisterKey", namespace |-> ns, id |-> AgentIdOf(n), publickey |-> k,
      name |-> n] : ns \in NamespaceIds, n \in AgentNames, k \in PublicKeys}
CreateActivityOps ==
    {[type |-> "CreateActivity", namespace |-> ns, id |-> ActivityIdOf(n), name |-> n] :
        ns \in NamespaceIds, n \in ActivityNames}
StartActivityOps ==
    {[type |-> "StartActivity", namespace |-> ns, id |-> a, agent |-> g, time |-> t] :
        ns \in NamespaceIds, a \in ActivityIds, g \in AgentIds, t \in Times}
EndActivityOps ==
    {[type |-> "EndActivity", namespace |-> ns, id |-> a, agent |-> g, time |-> t] :
        ns \in NamespaceIds, a \in ActivityIds, g \in AgentIds, t \in Times}
ActivityUsesOps ==
    {[type |-> "ActivityUses", namespace |-> ns, id |-> e, activity |-> a] :
        ns \in NamespaceIds, e \in EntityIds, a \in ActivityIds}
GenerateEntityOps ==
    {[type |-> "GenerateEntity", namespace |-> ns, id |-> e, activity |-> a] :
        ns \in NamespaceIds, e \in EntityIds, a \in ActivityIds}
EntityAttachOps ==
    {[type |-> "EntityAttach", namespace |-> ns, id |-> e, agent |-> g, signature |-> s,
      locator |-> LocatorOf(s), signature_time |-> t] :
        ns \in NamespaceIds, e \in EntityIds, g \in AgentIds, s \in Signatures,
        t \in Times}

Ops ==
    CreateNamespaceOps \cup CreateAgentOps \cup RegisterKeyOps \cup CreateActivityOps
    \cup StartActivityOps \cup EndActivityOps \cup ActivityUsesOps
    \cup GenerateEntityOps \cup EntityAttachOps

NoOp == [type |-> "None"]

(***************************************************************************)
(* ProvModel::apply, one operator per match arm                            *)
(***************************************************************************)
\* mutant: an operation naming an unknown agent inserts no stub
WithAgentStubNone(m, ns, agent) == m

\* the agent stub inserted when an operation names an agent the model lacks
WithAgentStub(m, ns, agent) ==
    IF ContainsKey(m.agents, agent) THEN m
    ELSE [m EXCEPT !.agents = Insert(m.agents, agent, Agent(agent, ns, Decompose(agent), None))]

\* the activity stub inserted by ActivityUses / GenerateEntity
WithActivityStub(m, ns, activity) ==
    IF ContainsKey(m.activities, activity) THEN m
    ELSE [m EXCEPT !.activities =
            Insert(m.activities, activity, Activity(activity, ns, Decompose(activity)))]

\* the unsigned entity inserted when an operation names an entity the model lacks
WithEntityStub(m, ns, id) ==
    IF ContainsKey(m.entities, id) THEN m
    ELSE [m EXCEPT !.entities = Insert(m.entities, id, EntityUnsigned(id, ns, Decompose(id)))]

ApplyCreateNamespace(m, op) ==
    [m EXCEPT !.namespaces = Insert(m.namespaces, op.id, Namespace(op.id, op.uuid, op.name))]

ApplyCreateAgent(m, op) ==
    LET m1 == namespace_context(m, op.namespace)
    IN  [m1 EXCEPT !.agents = Insert(m1.agents, op.id, Agent(op.id, op.namespace, op.name, None))]

ApplyRegisterKey(m, op) ==
    LET m1 == namespace_context(m, op.namespace)
        m2 == IF ContainsKey(m1.agents, op.id) THEN m1
              ELSE [m1 EXCEPT !.agents =
                        Insert(m1.agents, op.id, Agent(op.id, op.namespace, op.name, None))]
    IN  [m2 EXCEPT !.agents[op.id].publickey = Some(op.publickey)]

ApplyCreateActivity(m, op) ==
    LET m1 == namespace_context(m, op.namespace)
    IN  IF ContainsKey(m1.activities, op.id) THEN m1
        ELSE [m1 EXCEPT !.activities =
                Insert(m1.activities, op.id, Activity(op.id, op.namespace, op.name))]

\* the activity a StartActivity inserts when the model has none under op.id
StartedActivity(op) ==
    [Activity(op.id, op.namespace, Decompose(op.id)) EXCEPT !.started = Some(op.time)]

\* mutant: started is written on the second StartActivity, not by the one that creates
ApplyStartActivityLate(m, op) ==
    LET m1 == namespace_context(m, op.namespace)
        m2 == IF ContainsKey(m1.activities, op.id)
              THEN [m1 EXCEPT !.activities[op.id].started = Some(op.time)]
              ELSE [m1 EXCEPT !.activities =
                        Insert(m1.activities, op.id, Activity(op.id, op.namespace, Decompose(op.id)))]
        m3 == WithAgentStub(m2, op.namespace, op.agent)
    IN  [m3 EXCEPT !.was_associated_with = EntryInsert(m3.was_associated_with, op.id, op.agent)]

ApplyStartActivity(m, op) ==
    LET m1 == namespace_context(m, op.namespace)
        m2 == IF ContainsKey(m1.activities, op.id) THEN m1
              ELSE [m1 EXCEPT !.activities = Insert(m1.activities, op.id, StartedActivity(op))]
        m3 == WithAgentStub(m2, op.namespace, op.agent)
    IN  [m3 EXCEPT !.was_associated_with = EntryInsert(m3.was_associated_with, op.id, op.agent)]

\* the activity an EndActivity inserts when the model has none under op.id
EndedActivity(op) ==
    [Activity(op.id, op.namespace, Decompose(op.id)) EXCEPT !.ended = Some(op.time)]

ApplyEndActivity(m, op) ==
    LET m1 == namespace_context(m, op.namespace)
        m2 == IF ContainsKey(m1.activities, op.id) THEN m1
              ELSE [m1 EXCEPT !.activities = Insert(m1.activities, op.id, EndedActivity(op))]
        m3 == WithAgentStub(m2, op.namespace, op.agent)
    IN  [m3 EXCEPT !.was_associated_with = EntryInsert(m3.was_associated_with, op.id, op.agent)]

ApplyActivityUses(m, op) ==
    LET m1 == namespace_context(m, op.namespace)
        m2 == WithActivityStub(m1, op.namespace, op.activity)
        m3 == WithEntityStub(m2, op.namespace, op.id)
    IN  [m3 EXCEPT !.used = EntryInsert(m3.used, op.activity, op.id)]

ApplyGenerateEntity(m, op) ==
    LET m1 == namespace_context(m, op.namespace)
        m2 == WithActivityStub(m1, op.namespace, op.activity)
        m3 == WithEntityStub(m2, op.namespace, op.id)
    IN  [m3 EXCEPT !.was_generated_by = EntryInsert(m3.was_generated_by, op.id, op.activity)]

ApplyEntityAttach(m, op) ==
    LET m1 == namespace_context(m, op.namespace)
        m2 == WithEntityStub(m1, op.namespace, op.id)
        m3 == WithAgentStub(m2, op.namespace, op.agent)
    IN  [m3 EXCEPT !.entities =
            Insert(m3.entities, op.id,
                   EntitySign(m3.entities[op.id], op.signature, op.locator, op.signature_time))]

\* ProvModel::apply returns (): no operation is ever refused
ApplyFails(m, op) == FALSE

\* ProvModel::apply
Apply(m, op) ==
    CASE op.type = "CreateNamespace" -> ApplyCreateNamespace(m, op)
      [] op.type = "CreateAgent"     -> ApplyCreateAgent(m, op)
      [] op.type = "RegisterKey"     -> ApplyRegisterKey(m, op)
      [] op.type = "CreateActivity"  -> ApplyCreateActivity(m, op)
      [] op.type = "StartActivity"   -> ApplyStartActivity(m, op)
      [] op.type = "EndActivity"     -> ApplyEndActivity(m, op)
      [] op.type = "ActivityUses"    -> ApplyActivityUses(m, op)
      [] op.type = "GenerateEntity"  -> ApplyGenerateEntity(m, op)
      [] op.type = "EntityAttach"    -> ApplyEntityAttach(m, op)


(***************************************************************************)
(* JSON-LD documents: ProvModel::to_json, compaction, apply_json_ld        *)
(***************************************************************************)
\* json::JsonValue::Null, and what indexing an object by a missing key gives
JsonNull == <<"null">>
Get(obj, k) == IF k \in DOMAIN obj THEN obj[k] ELSE JsonNull
\* insert a property when the Option holds a value
InsertSome(obj, k, o) == IF IsSome(o) THEN (k :> Unwrap(o)) @@ obj ELSE obj

\* DateTime::to_rfc3339 and DateTime::parse_from_rfc3339
ToRfc3339(t) == <<"rfc3339", t>>
ParseFromRfc3339(s) == s[2]

\* all the orders in which a HashSet / HashMap over S can be iterated
RECURSIVE Perms(_)
Perms(S) ==
    IF S = {} THEN {<<>>}
    ELSE UNION {{<<x>> \o p : p \in Perms(S \ {x})} : x \in S}

\* The iteration order of the std HashSets of one to_json call: it depends on
\* the per-process random hasher state, so any order can come out.  One order
\* per kind of identifier is chosen; a set iterates as that order restricted
\* to its members.
HashOrders ==
    [agent : Perms(AgentIds), activity : Perms(ActivityIds), entity : Perms(EntityIds)]

Iter(S, order) == SelectSeq(order, LAMBDA x : x \in S)

\* the array of {"@id": id} written for an edge set, absent when the map has no key
EdgeArray(edges, id, order) ==
    IF ContainsKey(edges, id) THEN Some(Iter(edges[id], order)) ELSE None

NamespaceNode(ns) ==
    [k \in {"@id", "@type", "rdfs:label"} |->
        CASE k = "@id" -> ns.id
          [] k = "@type" -> "chronicle:Namespace"
          [] k = "rdfs:label" -> ns.name]

AgentNode(agent) ==
    InsertSome(
        [k \in {"@id", "@type", "rdfs:label", "chronicle:hasNamespace"} |->
            CASE k = "@id" -> agent.id
              [] k = "@type" -> "prov:Agent"
              [] k = "rdfs:label" -> agent.name
              [] k = "chronicle:hasNamespace" -> agent.namespaceid],
        "chronicle:hasPublicKey", agent.publickey)

ActivityNode(m, activity, h) ==
    LET base == [k \in {"@id", "@type", "rdfs:label", "chronicle:hasNamespace"} |->
                    CASE k = "@id" -> activity.id
                      [] k = "@type" -> "prov:Activity"
                      [] k = "rdfs:label" -> activity.name
                      [] k = "chronicle:hasNamespace" -> activity.namespaceid]
        d1 == InsertSome(base, "prov:startedAtTime",
                         IF IsSome(activity.started)
                         THEN Some(ToRfc3339(Unwrap(activity.started))) ELSE None)
        d2 == InsertSome(d1, "prov:endedAtTime",
                         IF IsSome(activity.ended)
                         THEN Some(ToRfc3339(Unwrap(activity.ended))) ELSE None)
        d3 == InsertSome(d2, "prov:wasAssociatedWith",
                         EdgeArray(m.was_associated_with, activity.id, h.agent))
    IN  InsertSome(d3, "prov:used", EdgeArray(m.used, activity.id, h.entity))

EntityNode(m, entity, h) ==
    LET base == [k \in {"@id", "@type", "rdfs:label", "chronicle:hasNamespace"} |->
                    CASE k = "@id" -> entity.id
                      [] k = "@type" -> "prov:Entity"
                      [] k = "rdfs:label" -> entity.name
                      [] k = "chronicle:hasNamespace" -> entity.namespaceid]
        d1 == InsertSome(base, "prov:wasGeneratedBy",
                         EdgeArray(m.was_generated_by, entity.id, h.activity))
    IN  IF entity.kind = "Signed"
        THEN InsertSome(
                ("chronicle:entitySignature" :> entity.signature)
                    @@ ("chronicle:signedAtTime" :> ToRfc3339(entity.signature_time)) @@ d1,
                "chronicle:entityLocator", entity.locator)
        ELSE d1

\* ProvModel::to_json: one node per namespace, agent, activity and entity.  The
\* document is a set here: the order of its nodes is lost in compaction anyway.
ToJson(m, h) ==
    {NamespaceNode(m.namespaces[n]) : n \in DOMAIN m.namespaces}
        \cup {AgentNode(m.agents[a]) : a \in DOMAIN m.agents}
        \cup {ActivityNode(m, m.activities[a], h) : a \in DOMAIN m.activities}
        \cup {EntityNode(m, m.entities[e], h) : e \in DOMAIN m.entities}

\* the term the context gives an IRI
ContextTerm(iri) ==
    CASE iri = "chronicle:hasNamespace" -> "namespace"
      [] iri = "chronicle:hasPublicKey" -> "publicKey"
      [] iri = "chronicle:entitySignature" -> "signature"
      [] iri = "chronicle:signedAtTime" -> "signedAtTime"
      [] iri = "chronicle:entityLocator" -> "locator"
      [] iri = "rdfs:label" -> "label"
      [] iri = "prov:startedAtTime" -> "startTime"
      [] iri = "prov:endedAtTime" -> "endTime"
      [] iri = "prov:wasAssociatedWith" -> "wasAssociatedWith"
      [] iri = "prov:used" -> "used"
      [] iri = "prov:wasGeneratedBy" -> "wasGeneratedBy"
      [] OTHER -> iri

Iris ==
    {"@id", "@type", "rdfs:label", "chronicle:hasNamespace", "chronicle:hasPublicKey",
     "chronicle:entitySignature", "chronicle:signedAtTime", "chronicle:entityLocator",
     "prov:startedAtTime", "prov:endedAtTime", "prov:wasAssociatedWith", "prov:used",
     "prov:wasGeneratedBy"}

\* compaction and expansion of one node: the keys are renamed, values are kept
CompactNode(node) ==
    [t \in {ContextTerm(k) : k \in DOMAIN node} |->
        node[CHOOSE k \in DOMAIN node : ContextTerm(k) = t]]
ExpandNode(node) ==
    [k \in {i \in Iris : ContextTerm(i) \in DOMAIN node} |-> node[ContextTerm(k)]]

\* ExpandedJson::compact followed by ["@graph"].members(): a document of two or
\* more nodes compacts to {"@context", "@graph": [...]}, a document of one node to
\* that node alone, which has no "@graph" member
GraphMembers(doc) ==
    IF Cardinality(doc) >= 2 THEN {CompactNode(n) : n \in doc} ELSE {}

(***************************************************************************)
(* ProvModel::apply_json_ld: a stored resource is read back into a model   *)
(***************************************************************************)
\* extract_namespace fails with MissingProperty when the node has no namespace
ExtractNamespaceFails(node) == "chronicle:hasNamespace" \notin DOMAIN node

apply_node_as_namespace(m, node) == namespace_context(m, node["@id"])

\* the agent is rebuilt from its id and namespace alone (Agent::exists)
apply_node_as_agent(m, node) ==
    LET ns == node["chronicle:hasNamespace"]
        m1 == namespace_context(m, ns)
    IN  [m1 EXCEPT !.agents =
            Insert(m1.agents, node["@id"], Agent(node["@id"], ns, Decompose(node["@id"]), None))]

RECURSIVE AddEdges(_, _, _)
AddEdges(edges, k, ids) ==
    IF ids = <<>> THEN edges
    ELSE AddEdges(EntryInsert(edges, k, Head(ids)), k, Tail(ids))

apply_node_as_activity(m, node) ==
    LET id == node["@id"]
        ns == node["chronicle:hasNamespace"]
        m1 == namespace_context(m, ns)
        started == IF "prov:startedAtTime" \in DOMAIN node
                   THEN Some(ParseFromRfc3339(node["prov:startedAtTime"])) ELSE None
        ended == IF "prov:endedAtTime" \in DOMAIN node
                 THEN Some(ParseFromRfc3339(node["prov:endedAtTime"])) ELSE None
        used == IF "prov:used" \in DOMAIN node THEN node["prov:used"] ELSE <<>>
        wasassociatedwith ==
            IF "prov:wasAssociatedWith" \in DOMAIN node
            THEN node["prov:wasAssociatedWith"] ELSE <<>>
        activity == [Activity(id, ns, Decompose(id)) EXCEPT !.started = started,
                                                            !.ended = ended]
    IN  [m1 EXCEPT !.used = AddEdges(m1.used, id, used),
                   !.was_associated_with =
                        AddEdges(m1.was_associated_with, id, wasassociatedwith),
                   !.activities = Insert(m1.activities, id, activity)]

\* the entity is rebuilt from its id and namespace alone (Entity::exists)
apply_node_as_entity(m, node) ==
    LET id == node["@id"]
        ns == node["chronicle:hasNamespace"]
        m1 == namespace_context(m, ns)
        generatedby == IF "prov:wasGeneratedBy" \in DOMAIN node
                       THEN node["prov:wasGeneratedBy"] ELSE <<>>
    IN  [m1 EXCEPT !.was_generated_by = AddEdges(m1.was_generated_by, id, generatedby),
                   !.entities = Insert(m1.entities, id, EntityUnsigned(id, ns, Decompose(id)))]

ApplyJsonLdFails(json) ==
    LET node == ExpandNode(json)
    IN  node["@type"] \in {"prov:Agent", "prov:Activity", "prov:Entity"}
            /\ ExtractNamespaceFails(node)

\* apply_json_ld of one compact resource
ApplyJsonLd(m, json) ==
    LET node == ExpandNode(json)
        type == node["@type"]
    IN  CASE type = "chronicle:Namespace" -> apply_node_as_namespace(m, node)
          [] type = "prov:Agent" -> apply_node_as_agent(m, node)
          [] type = "prov:Activity" -> apply_node_as_activity(m, node)
          [] type = "prov:Entity" -> apply_node_as_entity(m, node)
          [] OTHER -> m

RECURSIVE ApplyInputs(_, _)
ApplyInputs(m, inputs) ==
    IF inputs = {} THEN m
    ELSE LET i == CHOOSE x \in inputs : TRUE
         IN  ApplyInputs(ApplyJsonLd(m, i), inputs \ {i})

(***************************************************************************)
(* Ledger addresses, ChronicleTransaction::dependencies and ::process      *)
(***************************************************************************)
LedgerAddress(namespace, resource) == [namespace |-> namespace, resource |-> resource]

\* JsonValue::to_string of a string is the string, of Null it is "null"
JsonToString(v) == v

Dependencies(op) ==
    LET m == Apply(EmptyModel, op)
    IN  {LedgerAddress(m.entities[e].namespaceid, e) : e \in DOMAIN m.entities}
            \cup {LedgerAddress(m.activities[a].namespaceid, a) : a \in DOMAIN m.activities}
            \cup {LedgerAddress(m.agents[a].namespaceid, a) : a \in DOMAIN m.agents}

StateOutput(address, data) == [address |-> address, data |-> data]

\* process: Err when an input cannot be read back, else one StateOutput for each
\* member of the compacted graph
Process(op, input, h) ==
    IF \E i \in input : ApplyJsonLdFails(i)
    THEN [ok |-> FALSE, outputs |-> {}]
    ELSE LET m == Apply(ApplyInputs(EmptyModel, input), op)
             graph == GraphMembers(ToJson(m, h))
         IN  [ok |-> TRUE,
              outputs |-> {StateOutput(LedgerAddress(JsonToString(Get(r, "namespace")),
                                                     JsonToString(r["@id"])), r)
                              : r \in graph}]

(***************************************************************************)
(* InMemLedger, two replicas that are given the same transactions          *)
(***************************************************************************)
MaxTx == 2
MaxBatch == 2
Replicas == {1, 2}

\* the operations submitted to the ledgers
\* (one namespace, one time, one key and one signature: 14 operations)
LedgerOps ==
    {op \in Ops :
        /\ IF op.type = "CreateNamespace" THEN op.name = "ns1" ELSE op.namespace[3] = "ns1"
        /\ op.type \in {"StartActivity", "EndActivity"} => op.time = 1
        /\ op.type = "RegisterKey" => op.publickey = "k1"
        /\ op.type = "EntityAttach" => (op.signature = "s1" /\ op.signature_time = 1)}
Batches == UNION {[1..n -> LedgerOps] : n \in 1..MaxBatch}

InMemLedgerNew == [kv |-> EmptyMap, head |-> 0, chan |-> <<>>]

RECURSIVE InsertAll(_, _)
InsertAll(kv, outputs) ==
    IF outputs = {} THEN kv
    ELSE LET o == CHOOSE x \in outputs : TRUE
         IN  InsertAll(Insert(kv, o.address, o.data), outputs \ {o})

\* InMemLedger::submit from transaction i of the vector on: `?` returns at the
\* first transaction whose process fails, what was written before it stays.
\* env.h[i] are the hash orders of the process of transaction i; env.failAt is the
\* transaction whose process returns Err(ProcessorError), 0 for none
RECURSIVE SubmitFrom(_, _, _, _, _)
RECURSIVE SubmitStep(_, _, _, _, _, _)
SubmitStep(l, outs, batch, env, i, res) ==
    IF ~res.ok \/ env.failAt = i THEN [ledger |-> l, outputs |-> outs, ok |-> FALSE]
    ELSE SubmitFrom(
            [kv |-> InsertAll(l.kv, res.outputs),
             head |-> l.head + 1,
             chan |-> Append(l.chan,
                        [offset |-> l.head,
                         updates |-> {ApplyJsonLd(EmptyModel, o.data) : o \in res.outputs}])],
            Append(outs, res.outputs), batch, env, i + 1)

SubmitFrom(l, outs, batch, env, i) ==
    IF i > Len(batch) THEN [ledger |-> l, outputs |-> outs, ok |-> TRUE]
    ELSE SubmitStep(l, outs, batch, env, i,
            Process(batch[i],
                    {l.kv[d] : d \in Dependencies(batch[i]) \cap DOMAIN l.kv}, env.h[i]))

\* InMemLedger::submit
InMemSubmit(l, batch, env) == SubmitFrom(l, <<>>, batch, env, 1)

LedgerInit ==
    /\ ledger = [r \in Replicas |-> InMemLedgerNew]
    /\ lastBatch = <<>>
    /\ lastOutputs = [r \in Replicas |-> <<>>]
    /\ ntx = 0
    /\ ledgerPrev = [r \in Replicas |-> InMemLedgerNew]
    /\ lastResult = [r \in Replicas |-> "None"]

\* what submit(batch) can make of ledger l, over the hash orders of its to_json calls
SubmitOutcomes(l, batch, failAt) ==
    {InMemSubmit(l, batch, [h |-> hs, failAt |-> failAt]) :
        hs \in [1..Len(batch) -> HashOrders]}

ReplicaOutcomes(batch, failAt) ==
    LET outs == [r \in Replicas |-> SubmitOutcomes(ledger[r], batch, failAt)]
    IN  {res \in [Replicas -> UNION {outs[r] : r \in Replicas}] :
            \A r \in Replicas : res[r] \in outs[r]}

\* the same vector of transactions is submitted to every replica; each replica
\* serialises with the hash orders of its own process, and a process that fails
\* fails on every replica
Submit(batch) ==
    /\ ntx + Len(batch) <= MaxTx
    /\ \E failAt \in 0..Len(batch) : \E res \in ReplicaOutcomes(batch, failAt) :
        /\ ledger' = [r \in Replicas |-> res[r].ledger]
        /\ lastOutputs' = [r \in Replicas |-> res[r].outputs]
        /\ lastResult' = [r \in Replicas |-> IF res[r].ok THEN "Ok" ELSE "Err"]
    /\ ledgerPrev' = ledger
    /\ lastBatch' = batch
    /\ ntx' = ntx + Len(batch)
    /\ UNCHANGED <<modelVars, tpVars, apiVars, projVars, addrVars, syncVars,
                   policyVars>>

LedgerSubmit == \E batch \in Batches : Submit(batch)


(***************************************************************************)
(* The submission envelope (protocol.rs) and its operations                *)
(***************************************************************************)
MaxRequests == 2

\* the operations sent to the transaction processor
TpOps ==
    {op \in LedgerOps :
        op.type \in {"CreateNamespace", "CreateAgent", "RegisterKey", "CreateActivity"}}
TpBatches == UNION {[1..n -> TpOps] : n \in 1..MaxBatch}

\* ChronicleOperation::to_json: the linked-data node of one operation
OperationToJson(op) ==
    CASE op.type = "CreateNamespace" ->
            [id |-> "_:n1", type |-> op.type, namespaceName |-> op.name,
             namespaceUuid |-> op.uuid]
      [] op.type = "CreateAgent" ->
            [id |-> "_:n1", type |-> op.type,
             namespaceName |-> NamespaceDecompose(op.namespace)[1],
             namespaceUuid |-> NamespaceDecompose(op.namespace)[2],
             agentName |-> op.name]
      [] OTHER ->
            [id |-> "_:n1", type |-> op.type,
             namespaceName |-> NamespaceDecompose(op.namespace)[1],
             namespaceUuid |-> NamespaceDecompose(op.namespace)[2],
             resourceName |-> Decompose(op.id)]

operation_namespace(o) == NamespaceIdOf(o.namespaceName, o.namespaceUuid)
operation_agent(o) == AgentIdOf(o.agentName)

\* ChronicleOperation::from_json: any other type of operation is unreachable!()
FromJsonPanics(json) ==
    json.type \notin {"CreateNamespace", "CreateAgent", "AgentActsOnBehalfOf"}
OperationFromJson(json) ==
    IF json.type = "CreateNamespace"
    THEN [type |-> "CreateNamespace", id |-> operation_namespace(json),
          name |-> NamespaceDecompose(operation_namespace(json))[1],
          uuid |-> NamespaceDecompose(operation_namespace(json))[2]]
    ELSE IF json.type = "CreateAgent"
    THEN [type |-> "CreateAgent", namespace |-> operation_namespace(json),
          name |-> Decompose(operation_agent(json)), id |-> operation_agent(json)]
    ELSE [type |-> "AgentActsOnBehalfOf", namespace |-> operation_namespace(json),
          id |-> operation_agent(json), delegate_id |-> AgentIdOf(json.delegateName),
          activity_id |-> IF "activityName" \in DOMAIN json
                          THEN Some(ActivityIdOf(json.activityName)) ELSE None]

\* the version strings a submission can carry
ProtocolVersions == {"1", "2"}

create_operation_submission_request(payload) ==
    [version |-> "1", span_id |-> "",
     body |-> [i \in 1..Len(payload) |-> OperationToJson(payload[i])]]

\* the protobuf bytes of a submission, and bytes that are no submission
serialize_submission(submission) == <<"submission", submission>>
Garbage == <<"garbage">>
deserialize_submission(buf) ==
    IF buf[1] = "submission" THEN [ok |-> TRUE, submission |-> buf[2]]
    ELSE [ok |-> FALSE, submission |-> <<>>]

\* chronicle_operations_from_submission, run in a spawned task: when from_json
\* panics the task dies, its sender is dropped and recv() returns an error
chronicle_operations_from_submission(body) ==
    IF \E i \in 1..Len(body) : FromJsonPanics(body[i])
    THEN [ok |-> FALSE, ops |-> <<>>]
    ELSE [ok |-> TRUE, ops |-> [i \in 1..Len(body) |-> OperationFromJson(body[i])]]

(***************************************************************************)
(* SawtoothSubmitter::make_tx                                              *)
(***************************************************************************)
\* SawtoothAddress::from(&LedgerAddress): the family prefix and the hash of
\* "<namespace>:<resource>"; the hash is taken to be free of collisions
SawtoothAddress(addr) == <<"prefix", addr.namespace, addr.resource>>

\* mutant: only the first operation of the batch is looked at
MakeTxAddressesHead(transactions) ==
    {SawtoothAddress(d) : d \in Dependencies(transactions[1])}

\* the addresses make_tx collects: flat_map of dependencies into a HashSet
MakeTxAddresses(transactions) ==
    {SawtoothAddress(d) :
        d \in UNION {Dependencies(transactions[i]) : i \in 1..Len(transactions)}}

NoRequest == [signature |-> 0]

\* the transaction of make_tx, as the request the validator hands to the processor
MakeSawtoothTransaction(inputs, outputs, transactions, signature) ==
    [signature |-> signature, inputs |-> inputs, outputs |-> outputs,
     payload |-> serialize_submission(create_operation_submission_request(transactions)),
     batch |-> transactions]

(***************************************************************************)
(* ChronicleTransactionHandler::apply                                      *)
(***************************************************************************)
\* OperationState: the entries loaded and written so far, all of them dirty
OperationStateNew == EmptyMap
UpdateState(state, entries) == entries @@ state
StateInputs(state) == {state[a] : a \in DOMAIN state}
Dirty(state) == state

\* TransactionContext
ContextNew == [state |-> EmptyMap, events |-> <<>>]
GetStateEntries(c, addresses) ==
    [a \in addresses \cap DOMAIN c.state |-> c.state[a]]
SetStateEntries(c, entries) == [c EXCEPT !.state = entries @@ c.state]
AddEvent(c, signature, m) ==
    [c EXCEPT !.events =
        Append(c.events, [type |-> "chronicle/prov-update", transaction_id |-> signature,
                          model |-> m])]

\* what the environment of one apply decides: which fallible call fails (if any)
\* and the hash orders of the process
TpFailures == {"none", "get_state", "process", "set_state", "add_event"}

\* the state entries of the outputs of one process
OutputEntries(outputs) ==
    [a \in {SawtoothAddress(o.address) : o \in outputs} |->
        (CHOOSE o \in outputs : SawtoothAddress(o.address) = a).data]

\* mutant: the loop stops after the first transaction
LoopEndFirst(transactions) == 1

\* `for tx in transactions`: the loop runs to the last transaction of the body
LoopEnd(transactions) == Len(transactions)

\* the loop over the transactions, from transaction i on; res is what process
\* returned for transaction i
RECURSIVE ProcessLoop(_, _, _, _, _)
RECURSIVE ProcessStep(_, _, _, _, _, _)
ProcessStep(state, m, transactions, i, env, res) ==
    IF (env.fail = "process" /\ env.at = i) \/ ~res.ok
    THEN [ok |-> FALSE, state |-> state, model |-> m, at |-> i]
    ELSE ProcessLoop(UpdateState(state, OutputEntries(res.outputs)),
                     Apply(ApplyInputs(m, StateInputs(state)), transactions[i]),
                     transactions, i + 1, env)

ProcessLoop(state, m, transactions, i, env) ==
    IF i > LoopEnd(transactions)
    THEN [ok |-> TRUE, state |-> state, model |-> m, at |-> 0]
    ELSE ProcessStep(state, m, transactions, i, env,
                     Process(transactions[i], StateInputs(state), env.h))

\* mutant: what was processed so far is written before the error is returned
OnProcessErrorFlush(c, calls, state) ==
    [ctx |-> SetStateEntries(c, Dirty(state)), calls |-> Append(calls, "set_state_entries")]

\* `??` on the result of process: the error is returned at once
OnProcessError(c, calls, state) == [ctx |-> c, calls |-> calls]

TpReturn(result, stage, at, pending, c, calls) ==
    [result |-> result, stage |-> stage, at |-> at, pending |-> pending,
     ctx |-> c, calls |-> calls]

Decodes(req) ==
    /\ deserialize_submission(req.payload).ok
    /\ chronicle_operations_from_submission(
            deserialize_submission(req.payload).submission.body).ok

DecodedOperations(req) ==
    chronicle_operations_from_submission(
        deserialize_submission(req.payload).submission.body).ops

\* lines 155-163: the event, after the state has been written
HandlerEvent(c, req, env, m) ==
    IF env.fail = "add_event"
    THEN TpReturn("Err", "add_event", 0, {}, c,
                  <<"get_state_entries", "set_state_entries", "add_event">>)
    ELSE TpReturn("Ok", "done", 0, {}, AddEvent(c, req.signature, m),
                  <<"get_state_entries", "set_state_entries", "add_event">>)

\* the error of a failed process, as OnProcessError leaves the context
HandlerProcessError(loop, r) ==
    TpReturn("Err", "process", loop.at, DOMAIN loop.state, r.ctx, r.calls)

\* mutant: the event is added although the state write failed
OnSetStateErrorEvent(c, calls, req, m) ==
    [ctx |-> AddEvent(c, req.signature, m), calls |-> Append(calls, "add_event")]

\* `?` on the result of set_state_entries: the error is returned at once
OnSetStateError(c, calls, req, m) == [ctx |-> c, calls |-> calls]

\* the error of a failed set_state_entries, as OnSetStateError leaves the context
HandlerSetStateError(loop, r) ==
    TpReturn("Err", "set_state", 0, DOMAIN loop.state, r.ctx, r.calls)

\* lines 130-153: the result of the loop, then set_state_entries
HandlerCommit(c, req, env, loop) ==
    IF ~loop.ok
    THEN HandlerProcessError(loop, OnProcessError(c, <<"get_state_entries">>, loop.state))
    ELSE IF env.fail = "set_state"
    THEN HandlerSetStateError(loop,
            OnSetStateError(c, <<"get_state_entries", "set_state_entries">>, req,
                            loop.model))
    ELSE HandlerEvent(SetStateEntries(c, Dirty(loop.state)), req, env, loop.model)

\* lines 85-143: the dependencies are loaded and the transactions processed
HandlerLoad(c, req, env, transactions) ==
    IF env.fail = "get_state"
    THEN TpReturn("Err", "get_state", 0, {}, c, <<"get_state_entries">>)
    ELSE HandlerCommit(c, req, env,
            ProcessLoop(
                UpdateState(OperationStateNew,
                    GetStateEntries(c,
                        {SawtoothAddress(d) :
                            d \in UNION {Dependencies(transactions[i]) :
                                            i \in 1..Len(transactions)}})),
                EmptyModel, transactions, 1, env))

\* ChronicleTransactionHandler::apply
HandlerApply(c, req, env) ==
    IF ~Decodes(req) THEN TpReturn("Err", "decode", 0, {}, c, <<>>)
    ELSE HandlerLoad(c, req, env, DecodedOperations(req))

TpInit ==
    /\ request = NoRequest
    /\ ctx = ContextNew
    /\ tpPrev = ContextNew
    /\ tpCalls = <<>>
    /\ tpResult = [result |-> "None", stage |-> "none", at |-> 0, pending |-> {},
                   version |-> "none"]
    /\ nreq = 0

\* a client builds a transaction with make_tx and the validator passes it on
MakeTx(transactions) ==
    /\ request = NoRequest
    /\ nreq < MaxRequests
    /\ LET addresses == MakeTxAddresses(transactions)
       IN  request' = MakeSawtoothTransaction(addresses, addresses, transactions, nreq + 1)
    /\ nreq' = nreq + 1
    /\ UNCHANGED <<ctx, tpPrev, tpCalls, tpResult, modelVars, ledgerVars, apiVars, projVars, addrVars, syncVars,
                   policyVars>>

TpMakeTx == \E transactions \in TpBatches : MakeTx(transactions)

\* a transaction whose payload is no submission reaches the processor
TpForeignPayload ==
    /\ request = NoRequest
    /\ nreq < MaxRequests
    /\ request' = [signature |-> nreq + 1, inputs |-> {}, outputs |-> {},
                   payload |-> Garbage, batch |-> <<>>]
    /\ nreq' = nreq + 1
    /\ UNCHANGED <<ctx, tpPrev, tpCalls, tpResult, modelVars, ledgerVars, apiVars, projVars, addrVars, syncVars,
                   policyVars>>

\* a client that speaks another protocol version: the envelope of make_tx with
\* another version string
OtherVersion(transactions, version) ==
    /\ request = NoRequest
    /\ nreq < MaxRequests
    /\ LET addresses == MakeTxAddresses(transactions)
       IN  request' =
            [MakeSawtoothTransaction(addresses, addresses, transactions, nreq + 1)
                EXCEPT !.payload = serialize_submission(
                    [create_operation_submission_request(transactions)
                        EXCEPT !.version = version])]
    /\ nreq' = nreq + 1
    /\ UNCHANGED <<ctx, tpPrev, tpCalls, tpResult, modelVars, ledgerVars, apiVars, projVars, addrVars, syncVars,
                   policyVars>>

\* such a client sends submissions of one operation
TpOtherVersion ==
    \E op \in TpOps : \E version \in ProtocolVersions \ {"1"} :
        OtherVersion(<<op>>, version)

\* submission.version of the payload of a request, "none" when it does not decode
SubmissionVersion(req) ==
    IF deserialize_submission(req.payload).ok
    THEN deserialize_submission(req.payload).submission.version
    ELSE "none"

\* the processor has handled the request and returned r
TpReturned(r) ==
    /\ ctx' = r.ctx
    /\ tpPrev' = ctx
    /\ tpCalls' = r.calls
    /\ tpResult' = [result |-> r.result, stage |-> r.stage, at |-> r.at,
                    pending |-> r.pending, version |-> SubmissionVersion(request)]
    /\ request' = NoRequest
    /\ UNCHANGED <<nreq, modelVars, ledgerVars, apiVars, projVars, addrVars, syncVars,
                   policyVars>>

TpHandle(env) == TpReturned(HandlerApply(ctx, request, env))

TpEnvs(fail, ats) == [fail : {fail}, at : ats, h : HashOrders]

TpApplyOk ==
    /\ request # NoRequest /\ Decodes(request)
    /\ \E env \in TpEnvs("none", {0}) : TpHandle(env)
TpApplyDecodeError ==
    /\ request # NoRequest /\ ~Decodes(request)
    /\ \E env \in TpEnvs("none", {0}) : TpHandle(env)
TpApplyGetStateError ==
    /\ request # NoRequest /\ Decodes(request)
    /\ \E env \in TpEnvs("get_state", {0}) : TpHandle(env)
TpApplyProcessError ==
    /\ request # NoRequest /\ Decodes(request)
    /\ \E env \in TpEnvs("process", 1..Len(request.batch)) : TpHandle(env)
TpApplySetStateError ==
    /\ request # NoRequest /\ Decodes(request)
    /\ \E env \in TpEnvs("set_state", {0}) : TpHandle(env)
TpApplyAddEventError ==
    /\ request # NoRequest /\ Decodes(request)
    /\ \E env \in TpEnvs("add_event", {0}) : TpHandle(env)

(***************************************************************************)
(* persistence::Store, the projection                                      *)
(***************************************************************************)
\* the tables; the id of a row is its position
StoreNew ==
    [namespace |-> <<>>, agent |-> <<>>, activity |-> <<>>, entity |-> <<>>,
     used |-> {}, wasgeneratedby |-> {}, wasassociatedwith |-> {}]

RowsWhere(table, Test(_)) == {i \in 1..Len(table) : Test(table[i])}
MinOf(S) == CHOOSE i \in S : \A j \in S : i <= j

\* namespace_by_name: the first row with the name, RecordNotFound when there is none
NamespaceFound(st, name) == RowsWhere(st.namespace, LAMBDA r : r.name = name) # {}
namespace_by_name(st, name) ==
    LET i == MinOf(RowsWhere(st.namespace, LAMBDA r : r.name = name))
    IN  [id |-> NamespaceIdOf(name, st.namespace[i].uuid), rowid |-> i]

\* disambiguate_agent_name: the name, or "<name>-<max(id)>" when the namespace
\* already has an agent of that name
disambiguate_agent_name(st, name, nsname) ==
    IF RowsWhere(st.agent,
                 LAMBDA r : r.name = name /\ st.namespace[r.namespace_id].name = nsname) = {}
    THEN name
    ELSE name \o "-" \o ToString(Len(st.agent))

\* apply_namespace: insert or ignore; a namespace row is unique by its name
apply_namespace(st, ns) ==
    IF NamespaceFound(st, ns.name) THEN st
    ELSE [st EXCEPT !.namespace = Append(@, [name |-> ns.name, uuid |-> ns.uuid])]

\* apply_agent: insert or ignore; an agent row is unique by name and namespace
ApplyAgentFails(st, agent, ns) ==
    \/ ~ContainsKey(ns, agent.namespaceid)
    \/ ~NamespaceFound(st, NamespaceDecompose(agent.namespaceid)[1])
apply_agent(st, agent) ==
    LET nsid == namespace_by_name(st, NamespaceDecompose(agent.namespaceid)[1]).rowid
    IN  IF RowsWhere(st.agent,
                     LAMBDA r : r.name = agent.name /\ r.namespace_id = nsid) # {}
        THEN st
        ELSE [st EXCEPT !.agent =
                Append(@, [name |-> agent.name, namespace_id |-> nsid, current |-> 0])]

RECURSIVE ApplyNamespaces(_, _, _)
ApplyNamespaces(st, namespaces, todo) ==
    IF todo = {} THEN st
    ELSE LET n == CHOOSE x \in todo : TRUE
         IN  ApplyNamespaces(apply_namespace(st, namespaces[n]), namespaces, todo \ {n})

RECURSIVE ApplyAgents(_, _, _)
ApplyAgents(st, m, todo) ==
    IF todo = {} THEN [ok |-> TRUE, store |-> st]
    ELSE LET a == CHOOSE x \in todo : TRUE
         IN  IF ApplyAgentFails(st, m.agents[a], m.namespaces)
             THEN [ok |-> FALSE, store |-> st]
             ELSE ApplyAgents(apply_agent(st, m.agents[a]), m, todo \ {a})

\* the row id of namespace ns in the projection
NsRowId(st, ns) == namespace_by_name(st, NamespaceDecompose(ns)[1]).rowid

\* the rows of a table with a name in a namespace row
NamedRows(table, name, nsid) ==
    RowsWhere(table, LAMBDA r : r.name = name /\ r.namespace_id = nsid)

\* the rows of a table with a name in the namespaces called nsname (inner join)
NamedRowsOf(st, table, name, nsname) ==
    RowsWhere(table, LAMBDA r : r.name = name /\ st.namespace[r.namespace_id].name = nsname)

\* mutant: the suffix counts the activities of that name
disambiguate_activity_name_count(st, name, nsname) ==
    IF NamedRowsOf(st, st.activity, name, nsname) = {} THEN name
    ELSE name \o "-" \o ToString(Cardinality(NamedRowsOf(st, st.activity, name, nsname)) + 1)

\* disambiguate_activity_name: the name, or "<name>-<max(id)>" when the namespace
\* already has an activity of that name
disambiguate_activity_name(st, name, nsname) ==
    IF NamedRowsOf(st, st.activity, name, nsname) = {} THEN name
    ELSE name \o "-" \o ToString(Len(st.activity))

\* disambiguate_entity_name
disambiguate_entity_name(st, name, nsname) ==
    IF NamedRowsOf(st, st.entity, name, nsname) = {} THEN name
    ELSE name \o "-" \o ToString(Len(st.entity))

\* apply_activity: insert, or on a conflict of (name, namespace) update the times
apply_activity(st, activity) ==
    IF NamedRows(st.activity, activity.name, NsRowId(st, activity.namespaceid)) # {}
    THEN [st EXCEPT !.activity =
            [i \in 1..Len(st.activity) |->
                IF i \in NamedRows(st.activity, activity.name,
                                   NsRowId(st, activity.namespaceid))
                THEN [st.activity[i] EXCEPT !.started = activity.started,
                                            !.ended = activity.ended]
                ELSE st.activity[i]]]
    ELSE [st EXCEPT !.activity =
            Append(@, [name |-> activity.name,
                       namespace_id |-> NsRowId(st, activity.namespaceid),
                       started |-> activity.started, ended |-> activity.ended])]

\* apply_entity: insert or ignore; an entity row is unique by name and namespace
apply_entity(st, entity) ==
    IF NamedRows(st.entity, entity.name, NsRowId(st, entity.namespaceid)) # {} THEN st
    ELSE [st EXCEPT !.entity =
            Append(@, [name |-> entity.name,
                       namespace_id |-> NsRowId(st, entity.namespaceid)])]

\* activity_by_activity_name_and_namespace / entity_by_entity_name_and_namespace:
\* the first row with the name in the namespace
StoredActivity(st, activity) ==
    NamedRows(st.activity, activity.name, NsRowId(st, activity.namespaceid))
StoredEntity(st, entity) ==
    NamedRows(st.entity, entity.name, NsRowId(st, entity.namespaceid))

\* the row pair of an edge between model activity a and model entity e
Link(st, m, a, e) ==
    [activity_id |-> MinOf(StoredActivity(st, m.activities[a])),
     entity_id |-> MinOf(StoredEntity(st, m.entities[e]))]

\* apply_used / apply_was_generated_by fail when the model or the projection
\* lacks one of the two resources
LinkFails(st, m, a, e) ==
    \/ ~ContainsKey(m.activities, a)
    \/ ~ContainsKey(m.entities, e)
    \/ ~NamespaceFound(st, NamespaceDecompose(m.activities[a].namespaceid)[1])
    \/ ~NamespaceFound(st, NamespaceDecompose(m.entities[e].namespaceid)[1])
    \/ StoredActivity(st, m.activities[a]) = {}
    \/ StoredEntity(st, m.entities[e]) = {}

RECURSIVE ApplyActivities(_, _, _)
ApplyActivities(res, m, todo) ==
    IF ~res.ok \/ todo = {} THEN res
    ELSE LET a == CHOOSE x \in todo : TRUE
         IN  IF ApplyAgentFails(res.store, m.activities[a], m.namespaces)
             THEN [ok |-> FALSE, store |-> res.store]
             ELSE ApplyActivities([ok |-> TRUE,
                                   store |-> apply_activity(res.store, m.activities[a])],
                                  m, todo \ {a})

RECURSIVE ApplyEntities(_, _, _)
ApplyEntities(res, m, todo) ==
    IF ~res.ok \/ todo = {} THEN res
    ELSE LET e == CHOOSE x \in todo : TRUE
         IN  IF ~NamespaceFound(res.store, NamespaceDecompose(m.entities[e].namespaceid)[1])
             THEN [ok |-> FALSE, store |-> res.store]
             ELSE ApplyEntities([ok |-> TRUE,
                                 store |-> apply_entity(res.store, m.entities[e])],
                                m, todo \ {e})

\* agent_by_agent_name_and_namespace: the rows of the agent in its namespace
StoredAgent(st, agent) ==
    NamedRows(st.agent, agent.name, NsRowId(st, agent.namespaceid))

\* apply_was_associated_with fails when the model or the projection lacks the
\* activity or the agent
AgentLinkFails(st, m, a, g) ==
    \/ ~ContainsKey(m.activities, a)
    \/ ~ContainsKey(m.agents, g)
    \/ ~NamespaceFound(st, NamespaceDecompose(m.activities[a].namespaceid)[1])
    \/ ~NamespaceFound(st, NamespaceDecompose(m.agents[g].namespaceid)[1])
    \/ StoredActivity(st, m.activities[a]) = {}
    \/ StoredAgent(st, m.agents[g]) = {}

\* apply_was_associated_with over the pairs <<activity, agent>>
RECURSIVE ApplyAssociatedWith(_, _, _)
ApplyAssociatedWith(res, m, todo) ==
    IF ~res.ok \/ todo = {} THEN res
    ELSE LET p == CHOOSE x \in todo : TRUE
         IN  IF AgentLinkFails(res.store, m, p[1], p[2])
             THEN [ok |-> FALSE, store |-> res.store]
             ELSE ApplyAssociatedWith(
                    [ok |-> TRUE,
                     store |-> [res.store EXCEPT !.wasassociatedwith =
                        @ \cup {[activity_id |->
                                    MinOf(StoredActivity(res.store, m.activities[p[1]])),
                                 agent_id |->
                                    MinOf(StoredAgent(res.store, m.agents[p[2]]))]}]],
                    m, todo \ {p})

\* the edges of an edge map as pairs <<key, member>>
Pairs(edges) == UNION {{<<k, v>> : v \in edges[k]} : k \in DOMAIN edges}

\* apply_used over the pairs <<activity, entity>> of model.used
RECURSIVE ApplyUsed(_, _, _)
ApplyUsed(res, m, todo) ==
    IF ~res.ok \/ todo = {} THEN res
    ELSE LET p == CHOOSE x \in todo : TRUE
         IN  IF LinkFails(res.store, m, p[1], p[2])
             THEN [ok |-> FALSE, store |-> res.store]
             ELSE ApplyUsed([ok |-> TRUE,
                             store |-> [res.store EXCEPT !.used =
                                          @ \cup {Link(res.store, m, p[1], p[2])}]],
                            m, todo \ {p})

\* apply_was_generated_by over the pairs <<entity, activity>> of model.was_generated_by
RECURSIVE ApplyGeneratedBy(_, _, _)
ApplyGeneratedBy(res, m, todo) ==
    IF ~res.ok \/ todo = {} THEN res
    ELSE LET p == CHOOSE x \in todo : TRUE
         IN  IF LinkFails(res.store, m, p[2], p[1])
             THEN [ok |-> FALSE, store |-> res.store]
             ELSE ApplyGeneratedBy([ok |-> TRUE,
                                    store |-> [res.store EXCEPT !.wasgeneratedby =
                                                 @ \cup {Link(res.store, m, p[2], p[1])}]],
                                   m, todo \ {p})

\* apply_model: the namespaces, the agents, the activities, the entities, then
\* the was-associated-with, the used and the was-generated-by edges
apply_model(st, m) ==
    ApplyGeneratedBy(
        ApplyUsed(
            ApplyAssociatedWith(
                ApplyEntities(
                    ApplyActivities(
                        ApplyAgents(ApplyNamespaces(st, m.namespaces, DOMAIN m.namespaces),
                                    m, DOMAIN m.agents),
                        m, DOMAIN m.activities),
                    m, DOMAIN m.entities),
                m, Pairs(m.was_associated_with)),
            m, Pairs(m.used)),
        m, Pairs(m.was_generated_by))

\* ProvModel::from_tx
RECURSIVE FromTx(_, _, _)
FromTx(m, ops, i) == IF i > Len(ops) THEN m ELSE FromTx(Apply(m, ops[i]), ops, i + 1)

\* a connection that keeps the rows written before the failing step
CommittedPartial(st, res) == res

\* the outcome of the immediate transaction: all of the model or nothing
Committed(st, res) == IF res.ok THEN res ELSE [ok |-> FALSE, store |-> st]

\* Store::apply of a batch: one immediate transaction around apply_model; dbok
\* is whether the database carries the transaction out
StoreApply(st, ops, dbok) ==
    IF dbok THEN Committed(st, apply_model(st, FromTx(EmptyModel, ops, 1)))
    ELSE [ok |-> FALSE, store |-> st]

\* Store::apply_prov: one immediate transaction around apply_model
apply_prov(st, prov, dbok) ==
    IF dbok THEN Committed(st, apply_model(st, prov))
    ELSE [ok |-> FALSE, store |-> st]

(***************************************************************************)
(* Api: ApiDispatch, the actor loop and the commands                       *)
(***************************************************************************)
MaxCommands == 3
\* mpsc::channel::<ApiSendWithReply>(10)
MailboxCapacity == 10

ApiCommands ==
    {[type |-> "NamespaceCreate", name |-> "ns1", namespace |-> "ns1"]}
        \cup {[type |-> "AgentCreate", name |-> "ag1", namespace |-> n] : n \in NsNames}

\* the uuid source hands out a fresh uuid at each call
UuidSource(n) == "u" \o ToString(n + 1)

ResultOk(iri) == [ok |-> TRUE, value |-> iri]
ResultErr(kind) == [ok |-> FALSE, value |-> kind]
NoResult == [ok |-> FALSE, value |-> "none"]

ActorIdle ==
    [pc |-> "recv", id |-> 0, cmd |-> [type |-> "None"], ops |-> <<>>,
     result |-> NoResult, atStart |-> StoreNew, atSubmit |-> StoreNew,
     sends |-> 0, error |-> "none"]

\* SawtoothSubmissionError: what SawtoothSubmitter::submit can return.  Send and
\* Recv are failures of the transport (the validator is not reached, or does not
\* answer within the timeout); UnexpectedStatus is the validator's rejection of
\* the batch and Protocol a failure to encode or decode a message.
TransportErrors == {"Send", "Recv"}
SubmissionErrors == TransportErrors \cup {"UnexpectedStatus", "Protocol"}

Step(id, step) == [id |-> id, step |-> step]

\* mutant: the newest message of the mailbox is taken
RecvIndexLast(mb) == Len(mb)

\* Receiver::recv: the oldest message of the mailbox
RecvIndex(mb) == 1

Without(mb, i) == [j \in 1..(Len(mb) - 1) |-> IF j < i THEN mb[j] ELSE mb[j + 1]]

\* create_namespace up to its submit
NamespaceTx(name, n) ==
    [type |-> "CreateNamespace", id |-> NamespaceIdOf(name, UuidSource(n)),
     name |-> name, uuid |-> UuidSource(n)]

\* create_agent after ensure_namespace, up to its submit
AgentTx(st, cmd) ==
    [type |-> "CreateAgent",
     name |-> disambiguate_agent_name(st, cmd.name, cmd.namespace),
     id |-> AgentIdOf(disambiguate_agent_name(st, cmd.name, cmd.namespace)),
     namespace |-> namespace_by_name(st, cmd.namespace).id]

\* mutant: a failed submit is applied to the projection all the same
OnSubmitErrorApply(st, ops) == StoreApply(st, ops, TRUE).store

\* `?` on the result of submit: the error is returned, nothing is applied
OnSubmitError(st, ops) == st

\* Api::new returns one ApiDispatch and gives another to serve_graphql
DispatchHandles == 2

\* the senders of the mailbox inside the actor: tx, moved into the task of the
\* actor, and its clone in Api.tx
ActorSenders == 2

\* Receiver::recv: a message when there is one, none when the mailbox is empty
\* and every sender has been dropped, and pending otherwise
Recv(mb, senders) ==
    IF mb # <<>> THEN "message" ELSE IF senders = 0 THEN "none" ELSE "pending"

ApiInit ==
    /\ mailbox = <<>>
    /\ actor = ActorIdle
    /\ store = StoreNew
    /\ trace = <<>>
    /\ replies = EmptyMap
    /\ dropped = {}
    /\ replyErrors = {}
    /\ handles = DispatchHandles
    /\ apiLedger = <<>>
    /\ nsent = 0
    /\ uuidsUsed = 0

\* ApiDispatch::dispatch: the command and a reply sender are put in the mailbox
ApiDispatchSend ==
    \E cmd \in ApiCommands :
        /\ nsent < MaxCommands
        /\ handles > 0
        /\ Len(mailbox) < MailboxCapacity
        /\ mailbox' = Append(mailbox, [id |-> nsent + 1, cmd |-> cmd])
        /\ nsent' = nsent + 1
        /\ UNCHANGED <<actor, store, trace, replies, apiLedger, uuidsUsed,
                   dropped, replyErrors,
                   handles,
                   modelVars, ledgerVars, tpVars, projVars, addrVars, syncVars,
                   policyVars>>

\* mutant: ensure_namespace creates the namespace whether it is there or not
NamespaceIsErrAlways(st, name) == TRUE

\* ensure_namespace: ns.is_err() of the result of namespace_by_name, on which
\* create_namespace is called
NamespaceIsErr(st, name) == ~NamespaceFound(st, name)

\* the actor has message msg: dispatch runs up to the first ledger submit
ActorBegin(msg) ==
    IF msg.cmd.type = "AgentCreate" /\ ~NamespaceIsErr(store, msg.cmd.namespace)
    THEN /\ actor' = [pc |-> "submit", id |-> msg.id, cmd |-> msg.cmd,
                      ops |-> <<AgentTx(store, msg.cmd)>>, result |-> NoResult,
                      atStart |-> store, atSubmit |-> store,
                      sends |-> 1, error |-> "none"]
         /\ trace' = trace \o <<Step(msg.id, "recv"), Step(msg.id, "resolve"),
                                Step(msg.id, "build"), Step(msg.id, "submit")>>
         /\ UNCHANGED uuidsUsed
    ELSE /\ actor' = [pc |-> "ns_submit", id |-> msg.id, cmd |-> msg.cmd,
                      ops |-> <<NamespaceTx(msg.cmd.namespace, uuidsUsed)>>,
                      result |-> NoResult, atStart |-> store, atSubmit |-> store,
                      sends |-> 1, error |-> "none"]
         /\ trace' = trace \o <<Step(msg.id, "recv"), Step(msg.id, "resolve"),
                                Step(msg.id, "build"), Step(msg.id, "submit")>>
         /\ uuidsUsed' = uuidsUsed + 1

\* rx.recv().await returned: with a message the command is dispatched, with none
\* the loop returns
ActorRecv ==
    /\ actor.pc = "recv"
    /\ Recv(mailbox, handles + ActorSenders) # "pending"
    /\ IF Recv(mailbox, handles + ActorSenders) = "none"
       THEN /\ actor' = [ActorIdle EXCEPT !.pc = "stopped"]
            /\ UNCHANGED <<mailbox, trace, uuidsUsed>>
       ELSE /\ ActorBegin(mailbox[RecvIndex(mailbox)])
            /\ mailbox' = Without(mailbox, RecvIndex(mailbox))
    /\ UNCHANGED <<store, replies, apiLedger, nsent, dropped, replyErrors,
                   handles,
                   modelVars, ledgerVars, tpVars, projVars, addrVars, syncVars,
                   policyVars>>

\* create_namespace after its submit returned Ok: the projection is written; res is
\* what Store::apply returned.  create_agent then goes on to its own submit.
AfterNamespaceApply(res) ==
    /\ store' = res.store
    /\ IF ~res.ok
       THEN /\ actor' = [actor EXCEPT !.pc = "reply", !.result = ResultErr("store")]
            /\ trace' = trace \o <<Step(actor.id, "apply")>>
       ELSE IF actor.cmd.type = "NamespaceCreate"
       THEN /\ actor' = [actor EXCEPT !.pc = "reply",
                                      !.result = ResultOk(actor.ops[1].id)]
            /\ trace' = trace \o <<Step(actor.id, "apply")>>
       ELSE /\ actor' = [actor EXCEPT !.pc = "submit",
                                      !.ops = <<AgentTx(res.store, actor.cmd)>>,
                                      !.atSubmit = res.store,
                                      !.sends = 1]
            /\ trace' = trace \o <<Step(actor.id, "apply"), Step(actor.id, "resolve"),
                                   Step(actor.id, "build"), Step(actor.id, "submit")>>

ActorNamespaceSubmitted(dbok) ==
    /\ actor.pc = "ns_submit"
    /\ apiLedger' = Append(apiLedger, actor.ops)
    /\ AfterNamespaceApply(StoreApply(store, actor.ops, dbok))
    /\ UNCHANGED <<mailbox, replies, nsent, uuidsUsed, dropped, replyErrors,
                   handles,
                   modelVars, ledgerVars, tpVars, projVars, addrVars, syncVars,
                   policyVars>>

ActorNamespaceSubmitOk == ActorNamespaceSubmitted(TRUE)
ActorNamespaceSubmitOkStoreErr == ActorNamespaceSubmitted(FALSE)

\* the submit of a command's own batch returned Ok: the projection is written
AfterApply(res) ==
    /\ store' = res.store
    /\ actor' = [actor EXCEPT !.pc = "reply",
                              !.result = IF res.ok THEN ResultOk(actor.ops[1].id)
                                                   ELSE ResultErr("store")]

ActorSubmitted(dbok) ==
    /\ actor.pc = "submit"
    /\ apiLedger' = Append(apiLedger, actor.ops)
    /\ AfterApply(StoreApply(store, actor.ops, dbok))
    /\ trace' = trace \o <<Step(actor.id, "apply")>>
    /\ UNCHANGED <<mailbox, replies, nsent, uuidsUsed, dropped, replyErrors,
                   handles,
                   modelVars, ledgerVars, tpVars, projVars, addrVars, syncVars,
                   policyVars>>

ActorSubmitOk == ActorSubmitted(TRUE)
ActorSubmitOkStoreErr == ActorSubmitted(FALSE)

\* a submit returned an error (a timeout, a status other than 1): `?` returns it
ActorSubmitErr ==
    /\ actor.pc \in {"ns_submit", "submit"}
    /\ store' = OnSubmitError(store, actor.ops)
    /\ \E e \in SubmissionErrors :
            actor' = [actor EXCEPT !.pc = "reply", !.result = ResultErr("ledger"),
                                   !.error = e]
    /\ UNCHANGED <<mailbox, trace, replies, apiLedger, nsent, uuidsUsed,
                   dropped, replyErrors,
                   handles,
                   modelVars, ledgerVars, tpVars, projVars, addrVars, syncVars,
                   policyVars>>

\* the caller of dispatch is cancelled while it awaits the reply: its reply
\* receiver is dropped
CallerDrop ==
    \E id \in 1..nsent :
        /\ id \notin DOMAIN replies
        /\ id \notin dropped \cup replyErrors
        /\ dropped' = dropped \cup {id}
        /\ UNCHANGED <<mailbox, actor, store, trace, replies, apiLedger, nsent, uuidsUsed,
                       replyErrors, handles,
                   modelVars, ledgerVars, tpVars, projVars, addrVars, syncVars,
                   policyVars>>

\* an ApiDispatch handle is dropped; the last one only when no dispatch call is
\* awaiting its reply through it
HandleDrop ==
    /\ handles > 0
    /\ handles > 1 \/ \A id \in 1..nsent : id \in DOMAIN replies \cup dropped
    /\ handles' = handles - 1
    /\ UNCHANGED <<mailbox, actor, store, trace, replies, apiLedger, nsent, uuidsUsed,
                   dropped, replyErrors,
                   modelVars, ledgerVars, tpVars, projVars, addrVars, syncVars,
                   policyVars>>

\* an actor loop that ends when a reply cannot be sent
AfterReplyStop(sent) == IF sent THEN ActorIdle ELSE [ActorIdle EXCEPT !.pc = "stopped"]

\* the actor after reply.send(result) returned: .map_err(log).ok() discards the
\* error and the loop goes back to rx.recv()
AfterReply(sent) == ActorIdle

\* reply.send(result): the caller of dispatch receives the result, or the send
\* fails because the receiver is gone and the error is logged
ActorReply ==
    /\ actor.pc = "reply"
    /\ IF actor.id \in dropped
       THEN /\ replyErrors' = replyErrors \cup {actor.id}
            /\ UNCHANGED replies
       ELSE /\ replies' = Insert(replies, actor.id, actor.result)
            /\ UNCHANGED replyErrors
    /\ trace' = trace \o <<Step(actor.id, "reply")>>
    /\ actor' = AfterReply(actor.id \notin dropped)
    /\ UNCHANGED <<mailbox, store, apiLedger, nsent, uuidsUsed, dropped,
                   handles,
                   modelVars, ledgerVars, tpVars, projVars, addrVars, syncVars,
                   policyVars>>

(***************************************************************************)
(* Api commands, one whole command at a time: the actor handles a command  *)
(* to its reply before it takes the next one                               *)
(***************************************************************************)
MaxProjCommands == 3

\* the commands issued
ActivityCreateCommands ==
    {[type |-> "ActivityCreate", name |-> n, namespace |-> "ns1", activity |-> None] :
        n \in {"a", "a-2"}}
        \cup {[type |-> "ActivityCreate", name |-> "a", namespace |-> "ns2",
               activity |-> None]}
AgentCreateCommands ==
    {[type |-> "AgentCreate", name |-> "ag1", namespace |-> "ns1", activity |-> None]}
ActivityUseCommands ==
    {[type |-> "ActivityUse", name |-> "ent1", namespace |-> "ns1", activity |-> a] :
        a \in {None, Some("a")}}
ActivityGenerateCommands ==
    {[type |-> "ActivityGenerate", name |-> "ent1", namespace |-> "ns1", activity |-> a] :
        a \in {None, Some("a")}}

ActivityStartCommands ==
    {[type |-> "ActivityStart", name |-> "a", namespace |-> "ns1", activity |-> None,
      time |-> t, agent |-> "ag1"] : t \in Times}
ActivityEndCommands ==
    {[type |-> "ActivityEnd", name |-> "", namespace |-> "ns1", activity |-> a,
      time |-> t, agent |-> "ag1"] : a \in {None, Some("a")}, t \in Times}

\* the models a Sync command carries: the model of a create and a use of its
\* activity, and the model read back from the activity node of that model alone,
\* which has the used edge and not the entity
SyncTx ==
    <<[type |-> "CreateActivity", namespace |-> NamespaceIdOf("ns1", "u1"),
       id |-> ActivityIdOf("a"), name |-> "a"],
      [type |-> "ActivityUses", namespace |-> NamespaceIdOf("ns1", "u1"),
       id |-> EntityIdOf("ent1"), activity |-> ActivityIdOf("a")]>>
SyncProv == FromTx(EmptyModel, SyncTx, 1)
SyncActivityProv ==
    ApplyJsonLd(EmptyModel,
                CompactNode(ActivityNode(SyncProv, SyncProv.activities[ActivityIdOf("a")],
                                         CHOOSE h \in HashOrders : TRUE)))
\* the model of two agents of one namespace
SyncAgentsTx ==
    <<[type |-> "CreateAgent", namespace |-> NamespaceIdOf("ns1", "u1"),
       name |-> "ag1", id |-> AgentIdOf("ag1")],
      [type |-> "CreateAgent", namespace |-> NamespaceIdOf("ns1", "u1"),
       name |-> "ag2", id |-> AgentIdOf("ag2")]>>
SyncAgentsProv == FromTx(EmptyModel, SyncAgentsTx, 1)
SyncCommands ==
    {[type |-> "Sync", name |-> "", namespace |-> "ns1", activity |-> None, prov |-> m] :
        m \in {SyncProv, SyncActivityProv}}
AgentSyncCommands ==
    {[type |-> "Sync", name |-> "", namespace |-> "ns1", activity |-> None,
      prov |-> SyncAgentsProv]}

AgentUseCommands ==
    {[type |-> "AgentUse", name |-> n, namespace |-> "ns1", activity |-> None] :
        n \in {"ag1", "ag2"}}

\* what the environment of one command decides: which fallible step fails
CommandFailures == {"none", "ns_submit", "ns_store", "submit", "store"}

\* what a command returns: the projection it leaves, Ok or Err, the name it gave
\* the resource and the batch it submitted
CommandReturn(st, ok, name, ops) == [store |-> st, ok |-> ok, name |-> name, ops |-> ops]

\* ensure_namespace: create_namespace when namespace_by_name finds nothing
EnsureNamespace(st, nsname, fail, n) ==
    IF NamespaceFound(st, nsname) THEN [ok |-> TRUE, store |-> st]
    ELSE IF fail = "ns_submit" THEN [ok |-> FALSE, store |-> st]
    ELSE StoreApply(st, <<NamespaceTx(nsname, n)>>, fail # "ns_store")

\* ledger_writer.submit(to_apply)? then store.apply(to_apply)?
SubmitAndApply(st, ops, name, fail, res) ==
    IF fail = "submit" THEN CommandReturn(OnSubmitError(st, ops), FALSE, name, ops)
    ELSE CommandReturn(res.store, res.ok, name, ops)

\* create_activity after ensure_namespace, up to its submit
ActivityTx(st, cmd) ==
    [type |-> "CreateActivity",
     namespace |-> namespace_by_name(st, cmd.namespace).id,
     id |-> ActivityIdOf(disambiguate_activity_name(st, cmd.name, cmd.namespace)),
     name |-> disambiguate_activity_name(st, cmd.name, cmd.namespace)]

\* get_activity_by_name_or_last_started: the named activity of the namespace, or
\* with no name the first activity row in the order of started
ActivityRows(st, activity, nsname) ==
    IF IsSome(activity)
    THEN NamedRows(st.activity, Unwrap(activity), namespace_by_name(st, nsname).rowid)
    ELSE {i \in 1..Len(st.activity) :
            \A j \in 1..Len(st.activity) :
                \/ st.activity[i].started = None
                \/ /\ st.activity[j].started # None
                   /\ Unwrap(st.activity[i].started) <= Unwrap(st.activity[j].started)}
get_activity_by_name_or_last_started(st, activity, nsname) ==
    st.activity[MinOf(ActivityRows(st, activity, nsname))]

\* activity_use / activity_generate after the lookups, up to the submit
EntityTx(st, cmd, type) ==
    [type |-> type,
     namespace |-> namespace_by_name(st, cmd.namespace).id,
     id |-> EntityIdOf(disambiguate_entity_name(st, cmd.name, cmd.namespace)),
     activity |-> ActivityIdOf(
                    get_activity_by_name_or_last_started(st, cmd.activity,
                                                         cmd.namespace).name)]

\* start_activity after the lookup of its agent, up to its submit
StartTx(st, cmd) ==
    [type |-> "StartActivity",
     namespace |-> namespace_by_name(st, cmd.namespace).id,
     id |-> ActivityIdOf(disambiguate_activity_name(st, cmd.name, cmd.namespace)),
     agent |-> AgentIdOf(cmd.agent),
     time |-> cmd.time]

\* end_activity after its lookups, up to its submit: the namespace is that of
\* the activity row found
EndTx(st, cmd) ==
    [type |-> "EndActivity",
     namespace |->
        namespace_by_name(st,
            st.namespace[get_activity_by_name_or_last_started(
                            st, cmd.activity, cmd.namespace).namespace_id].name).id,
     id |-> ActivityIdOf(
                get_activity_by_name_or_last_started(st, cmd.activity, cmd.namespace).name),
     agent |-> AgentIdOf(cmd.agent),
     time |-> cmd.time]

\* the batch of a command and the name it chose, on the projection st that
\* ensure_namespace left
CommandOps(st, cmd) ==
    CASE cmd.type = "ActivityCreate" -> <<ActivityTx(st, cmd)>>
      [] cmd.type = "ActivityStart" -> <<StartTx(st, cmd)>>
      [] cmd.type = "ActivityEnd" -> <<EndTx(st, cmd)>>
      [] cmd.type = "AgentCreate" -> <<AgentTx(st, cmd)>>
      [] cmd.type = "ActivityUse" -> <<EntityTx(st, cmd, "ActivityUses")>>
      [] cmd.type = "ActivityGenerate" -> <<EntityTx(st, cmd, "GenerateEntity")>>
CommandName(st, cmd) ==
    CASE cmd.type = "ActivityCreate" ->
            disambiguate_activity_name(st, cmd.name, cmd.namespace)
      [] cmd.type = "ActivityStart" ->
            disambiguate_activity_name(st, cmd.name, cmd.namespace)
      [] cmd.type \in {"ActivityEnd", "Sync", "AgentUse"} -> ""
      [] cmd.type = "AgentCreate" -> disambiguate_agent_name(st, cmd.name, cmd.namespace)
      [] OTHER -> disambiguate_entity_name(st, cmd.name, cmd.namespace)

\* the lookups of a command that return an error before anything is submitted
LookupFails(st, cmd) ==
    CASE cmd.type \in {"ActivityUse", "ActivityGenerate"} ->
            ActivityRows(st, cmd.activity, cmd.namespace) = {}
      [] cmd.type = "ActivityStart" ->
            \/ ~NamespaceFound(st, cmd.namespace)
            \/ NamedRowsOf(st, st.agent, cmd.agent, cmd.namespace) = {}
      [] cmd.type = "ActivityEnd" ->
            \/ (IsSome(cmd.activity) /\ ~NamespaceFound(st, cmd.namespace))
            \/ ActivityRows(st, cmd.activity, cmd.namespace) = {}
            \/ NamedRows(st.agent, cmd.agent,
                         get_activity_by_name_or_last_started(
                            st, cmd.activity, cmd.namespace).namespace_id) = {}
      [] OTHER -> FALSE

\* create_activity, create_agent, activity_use, activity_generate: ens is what
\* ensure_namespace returned
AfterEnsure(cmd, fail, ens) ==
    IF ~ens.ok \/ LookupFails(ens.store, cmd)
    THEN CommandReturn(ens.store, FALSE, "", <<>>)
    ELSE SubmitAndApply(ens.store, CommandOps(ens.store, cmd), CommandName(ens.store, cmd),
                        fail,
                        StoreApply(ens.store, CommandOps(ens.store, cmd), fail # "store"))

\* the commands that begin with ensure_namespace
EnsuresNamespace(cmd) ==
    cmd.type \notin {"ActivityStart", "ActivityEnd", "Sync", "AgentUse"}

\* Api::sync: apply_prov of the model, nothing is submitted
Sync(st, cmd, res) == CommandReturn(res.store, res.ok, "", <<>>)

\* a use_agent that leaves the agent that was current as it is
use_agent_keep(st, name, namespace) ==
    [st EXCEPT !.agent =
        [i \in 1..Len(st.agent) |->
            IF st.agent[i].name = name
                /\ st.agent[i].namespace_id = namespace_by_name(st, namespace).rowid
            THEN [st.agent[i] EXCEPT !.current = 1]
            ELSE st.agent[i]]]

\* Store::use_agent after namespace_by_name found the namespace: current is set
\* to 0 in the rows where it is not 0, then to 1 in the rows of the name in the
\* namespace
use_agent(st, name, namespace) ==
    [st EXCEPT !.agent =
        [i \in 1..Len(st.agent) |->
            [st.agent[i] EXCEPT !.current =
                IF st.agent[i].name = name
                    /\ st.agent[i].namespace_id = namespace_by_name(st, namespace).rowid
                THEN 1 ELSE 0]]]

\* Store::get_current_agent: the first agent row where current is not 0, an
\* error when there is none
CurrentRows(st) == RowsWhere(st.agent, LAMBDA r : r.current # 0)
get_current_agent(st) ==
    IF CurrentRows(st) = {} THEN None ELSE Some(st.agent[MinOf(CurrentRows(st))])

\* Api::use_agent: store.connection()? , store.use_agent(..)? with its
\* namespace_by_name(..)?, then Ok(Unit); nothing is submitted
UseAgent(st, cmd, fail) ==
    IF fail = "store" \/ ~NamespaceFound(st, cmd.namespace)
    THEN CommandReturn(st, FALSE, "", <<>>)
    ELSE CommandReturn(use_agent(st, cmd.name, cmd.namespace), TRUE, "", <<>>)

\* Api::dispatch of one command
Dispatch(st, cmd, fail, n) ==
    IF cmd.type = "Sync" THEN Sync(st, cmd, apply_prov(st, cmd.prov, fail # "store"))
    ELSE IF cmd.type = "AgentUse" THEN UseAgent(st, cmd, fail)
    ELSE IF EnsuresNamespace(cmd)
    THEN AfterEnsure(cmd, fail, EnsureNamespace(st, cmd.namespace, fail, n))
    ELSE AfterEnsure(cmd, fail, [ok |-> TRUE, store |-> st])

ProjInit ==
    /\ proj = StoreNew
    /\ projPrev = StoreNew
    /\ hist = <<>>
    /\ projUuids = 0

\* the actor has handled cmd and replied with r
Handled(cmd, r) ==
    /\ proj' = r.store
    /\ projPrev' = proj
    /\ hist' = Append(hist, [cmd |-> cmd, ok |-> r.ok, name |-> r.name,
                             rows |-> Len(proj.activity)])
    /\ projUuids' = IF EnsuresNamespace(cmd) /\ ~NamespaceFound(proj, cmd.namespace)
                    THEN projUuids + 1 ELSE projUuids
    /\ UNCHANGED <<modelVars, ledgerVars, tpVars, apiVars, addrVars, syncVars,
                   policyVars>>

Command(cmd) ==
    /\ Len(hist) < MaxProjCommands
    /\ \E fail \in CommandFailures : Handled(cmd, Dispatch(proj, cmd, fail, projUuids))

ProjCreateActivity == \E cmd \in ActivityCreateCommands : Command(cmd)
ProjCreateAgent == \E cmd \in AgentCreateCommands : Command(cmd)
ProjActivityUse == \E cmd \in ActivityUseCommands : Command(cmd)
ProjActivityGenerate == \E cmd \in ActivityGenerateCommands : Command(cmd)
ProjActivityStart == \E cmd \in ActivityStartCommands : Command(cmd)
ProjActivityEnd == \E cmd \in ActivityEndCommands : Command(cmd)
ProjSync == \E cmd \in SyncCommands : Command(cmd)
ProjUseAgent == \E cmd \in AgentUseCommands : Command(cmd)
ProjSyncAgents == \E cmd \in AgentSyncCommands : Command(cmd)

(***************************************************************************)
(* Observer of the scenario CreateActivity, StartActivity(t1),             *)
(* EndActivity(t2) on one activity that was unseen before the create.      *)
(***************************************************************************)
LifeInit == [a \in ActivityIds |-> [stage |-> "unseen", t1 |-> None, t2 |-> None]]

LifeStep(l, m, op) ==
    IF op.type \in {"CreateActivity", "StartActivity", "EndActivity"}
    THEN LET cur == l[op.id] IN
         [l EXCEPT ![op.id] =
            CASE op.type = "CreateActivity" /\ cur.stage = "unseen"
                    /\ ~ContainsKey(m.activities, op.id)
                        -> [cur EXCEPT !.stage = "created"]
              [] op.type = "StartActivity" /\ cur.stage = "created"
                        -> [cur EXCEPT !.stage = "started", !.t1 = Some(op.time)]
              [] op.type = "EndActivity" /\ cur.stage = "started"
                        -> [cur EXCEPT !.stage = "ended", !.t2 = Some(op.time)]
              [] cur.stage = "unseen" -> [cur EXCEPT !.stage = "other"]
              [] OTHER -> cur]
    ELSE IF op.type \in {"ActivityUses", "GenerateEntity"} /\ l[op.activity].stage = "unseen"
    THEN [l EXCEPT ![op.activity].stage = "other"]
    ELSE l

(***************************************************************************)
(* The address of a LedgerAddress: the family prefix and the SHA-256 of     *)
(* "<namespace>:<resource>"                                                 *)
(***************************************************************************)
MaxAddressed == 3

\* the identifiers as the strings they are: chronicle:ns:<name>:<uuid> and
\* chronicle:<kind>:<name>; a name is any string a client chooses
NamespaceIri(name, uuid) == "chronicle:ns:" \o name \o ":" \o uuid
ResourceIri(kind, name) == "chronicle:" \o kind \o ":" \o name

AddressNamespaceNames == {"ns1", "ns2", "ns1:u1:chronicle:agent:x"}
AddressAgentNames == {"ag1", "ag2", "x:u1:chronicle:agent:ag1"}

\* the LedgerAddresses of dependencies and process: the namespace of a resource
\* and its id, the namespace being "null" for a namespace node
AddressInputs ==
    [namespace : {NamespaceIri(n, "u1") : n \in AddressNamespaceNames} \cup {"null"},
     resource : {ResourceIri("agent", n) : n \in AddressAgentNames}
                    \cup {ResourceIri("activity", "act1")}]

\* the string that is hashed
HashedString(addr) == addr.namespace \o ":" \o addr.resource

\* SHA-256, taken to be free of collisions
Sha256(s) == <<"sha256", s>>

\* SawtoothAddress::from(&LedgerAddress) on the identifier strings
SawtoothAddressFrom(addr) == <<"prefix", Sha256(HashedString(addr))>>

AddrInit == addressed = [r \in Replicas |-> EmptyMap]

\* a replica computes the address of a LedgerAddress
ComputeAddress ==
    \E r \in Replicas : \E addr \in AddressInputs :
        /\ Cardinality(DOMAIN addressed[1]) + Cardinality(DOMAIN addressed[2]) < MaxAddressed
        /\ addr \notin DOMAIN addressed[r]
        /\ addressed' = [addressed EXCEPT ![r] = Insert(@, addr, SawtoothAddressFrom(addr))]
        /\ UNCHANGED <<modelVars, ledgerVars, tpVars, apiVars, projVars, syncVars,
                   policyVars>>

(***************************************************************************)
(* The ledgersync table of the Store: the offsets up to which the ledger   *)
(* has been read, each with the time it was stored                         *)
(***************************************************************************)
MaxSyncs == 4

\* Offset: Genesis, or Identity of a block id
Genesis == [kind |-> "Genesis"]
Identity(id) == [kind |-> "Identity", id |-> id]
Offsets == {Genesis} \cup {Identity(id) : id \in {"b1", "b2", "b3"}}

SyncInit ==
    /\ ledgersync = EmptyMap
    /\ syncNow = 0
    /\ lastOffset = None
    /\ nsync = 0

\* insert (offset, now) on conflict of offset update sync_time = now; Genesis is
\* not stored
set_last_offset(table, offset, now) ==
    IF offset.kind = "Identity" THEN Insert(table, offset.id, now) ELSE table

\* order_by(sync_time).first().optional(): a row of the least sync_time, which of
\* several rows of the same sync_time is the first is for the database to choose
get_last_offset(table) ==
    IF DOMAIN table = {} THEN {None}
    ELSE {Some(Identity(id)) : id \in {i \in DOMAIN table :
                                        \A j \in DOMAIN table : table[i] <= table[j]}}

\* a set_last_offset call; Utc::now() has not gone back since the call before
SetLastOffset ==
    \E offset \in Offsets : \E now \in {syncNow, syncNow + 1} :
        /\ nsync < MaxSyncs
        /\ ledgersync' = set_last_offset(ledgersync, offset, now)
        /\ syncNow' = now
        /\ lastOffset' = Some(offset)
        /\ nsync' = nsync + 1
        /\ UNCHANGED <<modelVars, ledgerVars, tpVars, apiVars, projVars, addrVars,
                       policyVars>>

(***************************************************************************)
(* The state addresses of the policy processor (opa-tp-protocol state.rs): *)
(* a policy has a binary and a metadata record, each stored at the address *)
(* its HasSawtoothAddress gives                                            *)
(***************************************************************************)
MaxPolicyWrites == 4

PolicyIds == {"p1", "p2", "p3"}
PolicyContents == {"v1", "v2"}

\* hash_and_append of the prefixed string
policy_address(id) == Sha256("opa:policy:binary:" \o id)
policy_meta_address(id) == Sha256("opa:policy:meta:" \o id)
key_address(id) == Sha256("opa:keys:" \o id)

\* <PolicyMeta as HasSawtoothAddress>::get_address
PolicyMetaGetAddress(meta) == policy_address(meta.id)

PolicyInit ==
    /\ policyState = EmptyMap
    /\ npolicy = 0

\* the binary of a policy is written at policy_address(id)
SetPolicyBinary ==
    \E id \in PolicyIds : \E v \in PolicyContents :
        /\ npolicy < MaxPolicyWrites
        /\ policyState' = Insert(policyState, policy_address(id),
                                 [kind |-> "binary", id |-> id, content |-> v])
        /\ npolicy' = npolicy + 1
        /\ UNCHANGED <<modelVars, ledgerVars, tpVars, apiVars, projVars, addrVars,
                       syncVars>>

\* the metadata of a policy is written at the address its get_address gives
SetPolicyMeta ==
    \E id \in PolicyIds :
        /\ npolicy < MaxPolicyWrites
        /\ LET meta == [id |-> id, policy_address |-> policy_address(id)]
           IN  policyState' = Insert(policyState, PolicyMetaGetAddress(meta),
                                     [kind |-> "meta", id |-> id, content |-> ""])
        /\ npolicy' = npolicy + 1
        /\ UNCHANGED <<modelVars, ledgerVars, tpVars, apiVars, projVars, addrVars,
                       syncVars>>

(***************************************************************************)
(* Specification of the provenance model: any operation, any order         *)
(***************************************************************************)
ModelInit ==
    /\ model = EmptyModel
    /\ prev = EmptyModel
    /\ lastOp = NoOp
    /\ nops = 0
    /\ life = LifeInit

Init ==
    /\ ModelInit
    /\ LedgerInit
    /\ TpInit
    /\ ApiInit
    /\ ProjInit
    /\ AddrInit
    /\ SyncInit
    /\ PolicyInit

ApplyOp(op) ==
    /\ nops < MaxOps
    /\ model' = Apply(model, op)
    /\ prev' = model
    /\ lastOp' = op
    /\ nops' = nops + 1
    /\ life' = LifeStep(life, model, op)
    /\ UNCHANGED <<ledgerVars, tpVars, apiVars, projVars, addrVars, syncVars,
                   policyVars>>

DoCreateNamespace == \E op \in CreateNamespaceOps : ApplyOp(op)
DoCreateAgent == \E op \in CreateAgentOps : ApplyOp(op)
DoRegisterKey == \E op \in RegisterKeyOps : ApplyOp(op)
DoCreateActivity == \E op \in CreateActivityOps : ApplyOp(op)
DoStartActivity == \E op \in StartActivityOps : ApplyOp(op)
DoEndActivity == \E op \in EndActivityOps : ApplyOp(op)
DoActivityUses == \E op \in ActivityUsesOps : ApplyOp(op)
DoGenerateEntity == \E op \in GenerateEntityOps : ApplyOp(op)
DoEntityAttach == \E op \in EntityAttachOps : ApplyOp(op)

Next ==
    \/ DoCreateNamespace
    \/ DoCreateAgent
    \/ DoRegisterKey
    \/ DoCreateActivity
    \/ DoStartActivity
    \/ DoEndActivity
    \/ DoActivityUses
    \/ DoGenerateEntity
    \/ DoEntityAttach

Spec == Init /\ [][Next]_vars

(***************************************************************************)
(* Specification of the replicated ledger                                  *)
(***************************************************************************)
InitLedger ==
    /\ ModelInit
    /\ LedgerInit
    /\ TpInit
    /\ ApiInit
    /\ ProjInit
    /\ AddrInit
    /\ SyncInit
    /\ PolicyInit

NextLedger == LedgerSubmit

SpecLedger == InitLedger /\ [][NextLedger]_vars

(***************************************************************************)
(* Specification of the transaction processor and its clients              *)
(***************************************************************************)
InitTP ==
    /\ ModelInit
    /\ LedgerInit
    /\ TpInit
    /\ ApiInit
    /\ ProjInit
    /\ AddrInit
    /\ SyncInit
    /\ PolicyInit

NextTP ==
    \/ TpMakeTx
    \/ TpForeignPayload
    \/ TpOtherVersion
    \/ TpApplyOk
    \/ TpApplyDecodeError
    \/ TpApplyGetStateError
    \/ TpApplyProcessError
    \/ TpApplySetStateError
    \/ TpApplyAddEventError

SpecTP == InitTP /\ [][NextTP]_vars

(***************************************************************************)
(* Specification of the Api actor and its callers                          *)
(***************************************************************************)
InitApi ==
    /\ ModelInit
    /\ LedgerInit
    /\ TpInit
    /\ ApiInit
    /\ ProjInit
    /\ AddrInit
    /\ SyncInit
    /\ PolicyInit

NextApi ==
    \/ ApiDispatchSend
    \/ ActorRecv
    \/ ActorNamespaceSubmitOk
    \/ ActorNamespaceSubmitOkStoreErr
    \/ ActorSubmitOk
    \/ ActorSubmitOkStoreErr
    \/ ActorSubmitErr
    \/ ActorReply
    \/ CallerDrop

SpecApi == InitApi /\ [][NextApi]_vars

(***************************************************************************)
(* The actor under fair scheduling: its task is polled by the runtime of    *)
(* its thread whenever it can take a step of its own.  Whether a ledger    *)
(* submit returns is for the ledger, not for the scheduler.                *)
(***************************************************************************)
MaxLiveCommands == 2

NextApiLive == NextApi /\ nsent' <= MaxLiveCommands

\* the actor awaits ledger_writer.submit
AwaitingSubmit == actor.pc \in {"ns_submit", "submit"}

SpecApiLive ==
    /\ InitApi
    /\ [][NextApiLive]_vars
    /\ WF_vars(ActorRecv)
    /\ WF_vars(ActorReply)

(***************************************************************************)
(* Specification of the actor while the handles to it are dropped          *)
(***************************************************************************)
NextShutdown ==
    \/ NextApiLive
    \/ HandleDrop

SpecShutdown == InitApi /\ [][NextShutdown]_vars

(***************************************************************************)
(* Specification of the projection under whole commands                    *)
(***************************************************************************)
InitProj ==
    /\ ModelInit
    /\ LedgerInit
    /\ TpInit
    /\ ApiInit
    /\ ProjInit
    /\ AddrInit
    /\ SyncInit
    /\ PolicyInit

NextProj ==
    \/ ProjCreateActivity
    \/ ProjCreateAgent
    \/ ProjActivityUse
    \/ ProjActivityGenerate
    \/ ProjActivityStart
    \/ ProjActivityEnd
    \/ ProjSync

SpecProj == InitProj /\ [][NextProj]_vars

(***************************************************************************)
(* Specification of the current agent: the commands that write agent rows, *)
(* one whole command at a time                                             *)
(***************************************************************************)
InitAgents ==
    /\ ModelInit
    /\ LedgerInit
    /\ TpInit
    /\ ApiInit
    /\ ProjInit
    /\ AddrInit
    /\ SyncInit
    /\ PolicyInit

NextAgents ==
    \/ ProjCreateAgent
    \/ ProjUseAgent
    \/ ProjSyncAgents

SpecAgents == InitAgents /\ [][NextAgents]_vars

(***************************************************************************)
(* Specification of the address computation                                *)
(***************************************************************************)
InitAddr ==
    /\ ModelInit
    /\ LedgerInit
    /\ TpInit
    /\ ApiInit
    /\ ProjInit
    /\ AddrInit
    /\ SyncInit
    /\ PolicyInit

NextAddr == ComputeAddress

SpecAddr == InitAddr /\ [][NextAddr]_vars

(***************************************************************************)
(* Specification of the synchronised offset                                *)
(***************************************************************************)
InitSync ==
    /\ ModelInit
    /\ LedgerInit
    /\ TpInit
    /\ ApiInit
    /\ ProjInit
    /\ AddrInit
    /\ SyncInit
    /\ PolicyInit

NextSync == SetLastOffset

SpecSync == InitSync /\ [][NextSync]_vars

(***************************************************************************)
(* Specification of the policy state                                       *)
(***************************************************************************)
InitPolicy ==
    /\ ModelInit
    /\ LedgerInit
    /\ TpInit
    /\ ApiInit
    /\ ProjInit
    /\ AddrInit
    /\ SyncInit
    /\ PolicyInit

NextPolicy ==
    \/ SetPolicyBinary
    \/ SetPolicyMeta

SpecPolicy == InitPolicy /\ [][NextPolicy]_vars

(***************************************************************************)
(* Reading a model                                                         *)
(***************************************************************************)
StartedOf(m, a) == IF ContainsKey(m.activities, a) THEN m.activities[a].started ELSE None
EndedOf(m, a) == IF ContainsKey(m.activities, a) THEN m.activities[a].ended ELSE None
AssociatedWith(m, a) ==
    IF ContainsKey(m.was_associated_with, a) THEN m.was_associated_with[a] ELSE {}

\* Unseen = 0, Stub = 1, Started = 2, Ended = 3
StageOf(m, a) ==
    IF ~ContainsKey(m.activities, a) THEN 0
    ELSE IF IsSome(m.activities[a].ended) THEN 3
    ELSE IF IsSome(m.activities[a].started) THEN 2
    ELSE 1

(***************************************************************************)
(* Claims on ProvModel::apply                                              *)
(***************************************************************************)
\* C1: applying an operation a second time changes nothing:
\* apply(apply(m, op), op) = apply(m, op) for every reachable m (prev) and every
\* op (lastOp); model is apply(prev, lastOp).
C1_Idempotent == lastOp # NoOp => Apply(model, lastOp) = model

\* C1 witness: a RegisterKey applied to a model that already holds its effect
C1_Witness ==
    /\ lastOp.type = "RegisterKey"
    /\ nops >= 2
    /\ prev = model
    /\ model.agents[lastOp.id].publickey = Some(lastOp.publickey)

\* C8: StartActivity creates the activity and the agent when absent, sets started
\* to time whenever started was empty before (also on an existing stub), keeps a
\* started that was set, and adds (activity, agent) to was_associated_with.
C8_StartActivityEffect ==
    lastOp.type = "StartActivity" =>
        /\ ContainsKey(model.activities, lastOp.id)
        /\ ContainsKey(model.agents, lastOp.agent)
        /\ (StartedOf(prev, lastOp.id) = None
                => StartedOf(model, lastOp.id) = Some(lastOp.time))
        /\ (StartedOf(prev, lastOp.id) # None
                => StartedOf(model, lastOp.id) = StartedOf(prev, lastOp.id))
        /\ lastOp.agent \in AssociatedWith(model, lastOp.id)

\* C9: an activity only moves forward along Unseen -> Stub -> Started -> Ended, no
\* operation clears started or ended, and after CreateActivity, StartActivity(t1),
\* EndActivity(t2) on one activity it has started = t1 and ended = t2.
C9_LifeCycle ==
    /\ \A a \in ActivityIds :
        /\ StageOf(prev, a) <= StageOf(model, a)
        /\ (IsSome(StartedOf(prev, a)) => StartedOf(model, a) = StartedOf(prev, a))
        /\ (IsSome(EndedOf(prev, a)) => EndedOf(model, a) = EndedOf(prev, a))
    /\ \A a \in ActivityIds :
        life[a].stage = "ended" =>
            /\ StartedOf(model, a) = life[a].t1
            /\ EndedOf(model, a) = life[a].t2

\* C10: started <= ended whenever both are set, and an EndActivity whose time is
\* earlier than the activity's started time fails and leaves the model unchanged.
C10_StartedBeforeEnded ==
    /\ \A a \in DOMAIN model.activities :
        (IsSome(model.activities[a].started) /\ IsSome(model.activities[a].ended))
            => Unwrap(model.activities[a].started) <= Unwrap(model.activities[a].ended)
    /\ (/\ lastOp.type = "EndActivity"
        /\ IsSome(StartedOf(prev, lastOp.id))
        /\ lastOp.time < Unwrap(StartedOf(prev, lastOp.id)))
            => (ApplyFails(prev, lastOp) /\ model = prev)

\* C2: replicas that start from the same state and are given the same ordered
\* transactions hold the same addresses, each with identical data.
C2_ReplicaDeterminism ==
    \A r1, r2 \in Replicas : ledger[r1].kv = ledger[r2].kv

\* C6: every address written by processing a transaction (the address of each
\* StateOutput of process) is one of that transaction's dependencies.
C6_WriteSetInsideDependencies ==
    \A r \in Replicas : \A i \in 1..Len(lastOutputs[r]) :
        {o.address : o \in lastOutputs[r][i]} \subseteq Dependencies(lastBatch[i])

\* C3: when decoding the submission or processing an operation of the batch fails,
\* apply returns an error without having called set_state_entries or add_event, and
\* the validator state and events are as they were when apply began.
C3_BatchAtomicity ==
    tpResult.stage \in {"decode", "process"} =>
        /\ tpResult.result = "Err"
        /\ \A i \in 1..Len(tpCalls) : tpCalls[i] \notin {"set_state_entries", "add_event"}
        /\ ctx = tpPrev

\* C3 witness: the second operation of a batch failed after the first had produced
\* its outputs
C3_Witness ==
    /\ tpResult.stage = "process"
    /\ tpResult.at = 2
    /\ tpResult.pending # {}

\* C7: the transaction built by make_tx declares as inputs exactly the addresses of
\* the union of the dependencies of the batch, and its outputs are equal to (so a
\* superset of) its inputs.
C7_DeclaredInputsOutputs ==
    (request # NoRequest /\ request.payload # Garbage) =>
        /\ request.inputs =
                {SawtoothAddress(d) :
                    d \in UNION {Dependencies(request.batch[i]) :
                                    i \in 1..Len(request.batch)}}
        /\ request.inputs \subseteq request.outputs
        /\ request.outputs = request.inputs

\* C7 witness: a transaction for a batch of two operations with different dependencies
C7_Witness ==
    /\ request # NoRequest
    /\ Len(request.batch) = 2
    /\ Dependencies(request.batch[1]) # Dependencies(request.batch[2])
    /\ Cardinality(request.inputs) = 2

\* C4: the actor handles the commands in the order in which they were enqueued, and
\* all the steps of one command, from its receipt to its reply, are taken before the
\* first step of the next command.
C4_PipelineOrder ==
    /\ trace # <<>> => trace[1] = Step(1, "recv")
    /\ \A k \in 1..(Len(trace) - 1) :
        \/ /\ trace[k + 1].id = trace[k].id
           /\ trace[k].step # "reply"
           /\ trace[k + 1].step # "recv"
        \/ /\ trace[k + 1].id = trace[k].id + 1
           /\ trace[k].step = "reply"
           /\ trace[k + 1].step = "recv"

\* C4 witness: the second command is awaiting its submit, the first has been
\* replied to and a third waits in the mailbox
C4_Witness ==
    /\ actor.pc = "submit"
    /\ actor.id = 2
    /\ 1 \in DOMAIN replies
    /\ Len(mailbox) = 1

\* C5 as stated: when a ledger submit made while handling a command returns an
\* error, the projection is exactly as it was before the command started.
C5_ProjectionAsBeforeCommand ==
    (actor.pc = "reply" /\ actor.result = ResultErr("ledger")) => store = actor.atStart

\* C5 amended: when a ledger submit made while handling a command returns an error,
\* the command returns that error and no operation of the failed submit is applied:
\* the projection is as it was when that submit was issued, and differs from the
\* projection at the start of the command at most by the namespace that
\* ensure_namespace had committed and applied before.
C5_FailedSubmitNotApplied ==
    (actor.pc = "reply" /\ actor.result = ResultErr("ledger")) =>
        /\ store = actor.atSubmit
        /\ store.agent = actor.atStart.agent
        /\ \/ store.namespace = actor.atStart.namespace
           \/ /\ actor.cmd.type = "AgentCreate"
              /\ ~NamespaceFound(actor.atStart, actor.cmd.namespace)
              /\ store.namespace =
                    Append(actor.atStart.namespace,
                           [name |-> actor.cmd.namespace,
                            uuid |-> store.namespace[Len(store.namespace)].uuid])

\* C5 witness: create_agent failed at its own submit after ensure_namespace had
\* created the namespace
C5_Witness ==
    /\ actor.pc = "reply"
    /\ actor.result = ResultErr("ledger")
    /\ actor.cmd.type = "AgentCreate"
    /\ store # actor.atStart

(***************************************************************************)
(* Invariants of the provenance model (models.rs, ProvModel::apply)        *)
(***************************************************************************)
\* the value set of an edge map under key k (HashMap::get, empty when absent)
EdgesOf(edges, k) == IF ContainsKey(edges, k) THEN edges[k] ELSE {}

\* C11: every agent, activity and entity identifier that occurs in
\* was_associated_with, used or was_generated_by is a key of the resource map of
\* its kind, in every model reached from the empty one by apply calls.
C11_NoDanglingEndpoints ==
    /\ \A a \in DOMAIN model.was_associated_with :
        /\ ContainsKey(model.activities, a)
        /\ model.was_associated_with[a] \subseteq DOMAIN model.agents
    /\ \A a \in DOMAIN model.used :
        /\ ContainsKey(model.activities, a)
        /\ model.used[a] \subseteq DOMAIN model.entities
    /\ \A e \in DOMAIN model.was_generated_by :
        /\ ContainsKey(model.entities, e)
        /\ model.was_generated_by[e] \subseteq DOMAIN model.activities

\* C11 witness: a StartActivity that names an activity and an agent the model
\* did not hold, after an ActivityUses that had to create both of its endpoints
C11_Witness ==
    /\ lastOp.type = "StartActivity"
    /\ ~ContainsKey(prev.agents, lastOp.agent)
    /\ lastOp.agent \in EdgesOf(model.was_associated_with, lastOp.id)
    /\ \E a \in DOMAIN model.used : model.used[a] # {}

\* C12: both endpoints of the edge an operation produces belong to the namespace
\* of that operation, also when the same identifier was used under another
\* namespace before; every resource carries exactly one namespace.
C12_NamespaceContainment ==
    /\ lastOp.type \in {"StartActivity", "EndActivity"} =>
        /\ model.activities[lastOp.id].namespaceid = lastOp.namespace
        /\ model.agents[lastOp.agent].namespaceid = lastOp.namespace
    /\ lastOp.type \in {"ActivityUses", "GenerateEntity"} =>
        /\ model.activities[lastOp.activity].namespaceid = lastOp.namespace
        /\ model.entities[lastOp.id].namespaceid = lastOp.namespace
    /\ \A g \in DOMAIN model.agents : model.agents[g].namespaceid \in NamespaceIds
    /\ \A a \in DOMAIN model.activities : model.activities[a].namespaceid \in NamespaceIds
    /\ \A e \in DOMAIN model.entities : model.entities[e].namespaceid \in NamespaceIds

\* C13: a namespace, agent, activity or entity that exists keeps its name and its
\* namespace under every later operation.
C13_NeverRename ==
    /\ \A n \in DOMAIN prev.namespaces :
        model.namespaces[n].name = prev.namespaces[n].name
    /\ \A g \in DOMAIN prev.agents :
        /\ model.agents[g].name = prev.agents[g].name
        /\ model.agents[g].namespaceid = prev.agents[g].namespaceid
    /\ \A a \in DOMAIN prev.activities :
        /\ model.activities[a].name = prev.activities[a].name
        /\ model.activities[a].namespaceid = prev.activities[a].namespaceid
    /\ \A e \in DOMAIN prev.entities :
        /\ model.entities[e].name = prev.entities[e].name
        /\ model.entities[e].namespaceid = prev.entities[e].namespaceid

\* the public keys recorded for an agent: Agent has the field publickey and no
\* set of earlier keys
IdentitiesOf(m, g) ==
    {m.agents[g].publickey[i] : i \in 1..Len(m.agents[g].publickey)}
\* the signatures recorded for an entity: Entity::Signed has one signature and
\* no set of earlier ones
AttachmentsOf(m, e) ==
    IF m.entities[e].kind = "Signed" THEN {m.entities[e].signature} ELSE {}

\* C14: every public key ever registered for an agent and every signature ever
\* attached to an entity stays recorded for it, as the current one or among the
\* prior ones, across every apply.
C14_MonotonicHistory ==
    /\ \A g \in DOMAIN prev.agents : IdentitiesOf(prev, g) \subseteq IdentitiesOf(model, g)
    /\ \A e \in DOMAIN prev.entities : AttachmentsOf(prev, e) \subseteq AttachmentsOf(model, e)

\* an agent of namespace ns that has a registered key
HasIdentity(m, agent, ns) ==
    /\ ContainsKey(m.agents, agent)
    /\ m.agents[agent].namespaceid = ns
    /\ IsSome(m.agents[agent].publickey)

\* C15: an EntityAttach whose signer has no registered key owned by an agent of
\* the operation's namespace is rejected with UnknownSigner and nothing of it is
\* written.
C15_UnknownSigner ==
    (lastOp.type = "EntityAttach" /\ ~HasIdentity(prev, lastOp.agent, lastOp.namespace))
        => (ApplyFails(prev, lastOp) /\ model = prev)

(***************************************************************************)
(* Claims on the submission envelope and the in-memory ledger              *)
(***************************************************************************)
\* C16: a submission whose protocol version is not "1" is rejected before any of
\* its operations is decoded or applied: the processor returns an error at the
\* decoding stage, makes no context call and leaves the state as it was.
C16_ProtocolVersionCheck ==
    tpResult.version \notin {"none", "1"} =>
        /\ tpResult.result = "Err"
        /\ tpResult.stage = "decode"
        /\ tpCalls = <<>>
        /\ ctx = tpPrev

\* C17: when the process of one transaction of the vector given to
\* InMemLedger::submit fails, the key-value state, the head counter and the
\* stream of state updates are as they were before the call.
C17_LedgerBatchAtomicity ==
    \A r \in Replicas : lastResult[r] = "Err" => ledger[r] = ledgerPrev[r]

(***************************************************************************)
(* Claims on name disambiguation and on repeated commands                  *)
(***************************************************************************)
\* commands i..j of hist are one create-activity command, repeated, each Ok
SameCreates(i, j) ==
    \A l \in i..j :
        /\ hist[l].ok
        /\ hist[l].cmd = hist[i].cmd
        /\ hist[l].cmd.type = "ActivityCreate"

\* the k-th name of the sequence a, a-1, a-2, ...
SequenceName(a, k) == IF k = 0 THEN a ELSE a \o "-" \o ToString(k)

\* the table of a kind of command, in projection st
TableOf(st, cmd) ==
    CASE cmd.type \in {"ActivityCreate", "ActivityStart"} -> st.activity
      [] cmd.type = "AgentCreate" -> st.agent
      [] OTHER -> st.entity

\* no activity of the name of command i was created before command i
NoneNamed(i) ==
    \A l \in 1..(i - 1) :
        ~(hist[l].ok /\ hist[l].cmd.type = "ActivityCreate"
            /\ hist[l].name = hist[i].cmd.name)

\* C18 as stated: from a projection with no activity named a, n creates of a in
\* one namespace yield the names a, a-1, ..., a-(n-1).
C18_DisambiguationSequence ==
    \A i \in 1..Len(hist) : \A j \in i..Len(hist) :
        (SameCreates(i, j) /\ NoneNamed(i) /\ hist[i].name = hist[i].cmd.name)
            => hist[j].name = SequenceName(hist[i].cmd.name, j - i)

\* C18 amended: from a projection with no activity row at all, n creates of a
\* yield n activity rows whose names are a, a-1, ..., a-(n-1), each name and so
\* each identifier different from the others.
C18_SequenceFromEmptyTable ==
    \A j \in 1..Len(hist) :
        (SameCreates(1, j) /\ hist[1].rows = 0) =>
            /\ hist[j].name = SequenceName(hist[1].cmd.name, j - 1)
            /\ hist[j].rows = j - 1
            /\ (j = Len(hist) =>
                    /\ Len(proj.activity) = j
                    /\ \A l \in 1..j :
                        proj.activity[l].name = SequenceName(hist[1].cmd.name, l - 1))
            /\ \A l \in 1..(j - 1) : ActivityIdOf(hist[l].name) # ActivityIdOf(hist[j].name)

\* C18 witness: three creates of a on an empty activity table, all Ok
C18_Witness ==
    /\ Len(hist) = 3
    /\ SameCreates(1, 3)
    /\ hist[1].rows = 0
    /\ hist[3].name = "a-2"
    /\ Len(proj.activity) = 3

\* C19: the name a disambiguate_*_name call returns for a namespace is not the
\* name of a row of that kind that the projection already has in that namespace.
C19_DisambiguatedNameUnique ==
    \A n \in {Len(hist)} \ {0} :
        hist[n].name # "" =>
            NamedRowsOf(projPrev, TableOf(projPrev, hist[n].cmd), hist[n].name,
                        hist[n].cmd.namespace) = {}

\* C20: the same Use command, or the same Generate command, handled twice leaves
\* the projection after the second as it was after the first: one entity and one
\* edge.
C20_IdempotentUseGenerate ==
    \A n \in {Len(hist)} \ {0, 1} :
        (/\ hist[n].ok /\ hist[n - 1].ok
         /\ hist[n].cmd = hist[n - 1].cmd
         /\ hist[n].cmd.type \in {"ActivityUse", "ActivityGenerate"})
            => /\ proj = projPrev
               /\ Cardinality(proj.used \cup proj.wasgeneratedby) = 1
               /\ Len(proj.entity) = 1

\* the activity rows of namespace nsname that have a started time
StartedRowsOf(st, nsname) ==
    {i \in 1..Len(st.activity) :
        /\ st.activity[i].namespace_id = namespace_by_name(st, nsname).rowid
        /\ st.activity[i].started # None}

\* C21: with the activity reference omitted, get_activity_by_name_or_last_started
\* resolves to an activity of the requested namespace whose started time is the
\* most recent of that namespace.
C21_LastStartedActivity ==
    \A nsname \in NsNames :
        (NamespaceFound(proj, nsname) /\ StartedRowsOf(proj, nsname) # {}) =>
            \E i \in StartedRowsOf(proj, nsname) :
                /\ get_activity_by_name_or_last_started(proj, None, nsname) = proj.activity[i]
                /\ \A j \in StartedRowsOf(proj, nsname) :
                        Unwrap(proj.activity[j].started) <= Unwrap(proj.activity[i].started)

\* C22: a command never clears a started or an ended time that an activity row
\* holds, and after an End at t2 of an activity row started at t1 the row has
\* started t1 and ended t2.
C22_StartThenEnd ==
    \A n \in {Len(hist)} \ {0} :
        /\ \A i \in 1..Len(projPrev.activity) :
                /\ projPrev.activity[i].started # None =>
                        proj.activity[i].started = projPrev.activity[i].started
                /\ projPrev.activity[i].ended # None => proj.activity[i].ended # None
        /\ (hist[n].ok /\ hist[n].cmd.type = "ActivityEnd") =>
                \A i \in ActivityRows(projPrev, hist[n].cmd.activity, hist[n].cmd.namespace) :
                    (i = MinOf(ActivityRows(projPrev, hist[n].cmd.activity,
                                            hist[n].cmd.namespace))
                     /\ projPrev.activity[i].started # None) =>
                        /\ proj.activity[i].started = projPrev.activity[i].started
                        /\ proj.activity[i].ended = Some(hist[n].cmd.time)

\* C23: when a step of apply_prov fails, the Sync command returns the error
\* and the projection is the one before the call: it holds none of the rows and
\* edges that apply_model wrote before the failing step.
C23_ApplyProvAtomic ==
    \A n \in {Len(hist)} \ {0} :
        (/\ hist[n].cmd.type = "Sync"
         /\ ~hist[n].ok \/ ~apply_model(projPrev, hist[n].cmd.prov).ok)
            => ~hist[n].ok /\ proj = projPrev

\* a Sync failed after apply_model had written rows
C23_Witness ==
    /\ Len(hist) > 0
    /\ hist[Len(hist)].cmd.type = "Sync"
    /\ ~hist[Len(hist)].ok
    /\ ~apply_model(projPrev, hist[Len(hist)].cmd.prov).ok
    /\ apply_model(projPrev, hist[Len(hist)].cmd.prov).store # projPrev
    /\ Len(projPrev.activity) > 0

\* the commands waiting in the mailbox
Waiting == {mailbox[i].id : i \in 1..Len(mailbox)}

\* C24: a command whose caller dropped the reply receiver is still submitted
\* and its failed reply is logged; the actor does not stop, it is back at
\* rx.recv() whenever it holds no command; and no command is skipped: every
\* command sent is waiting, is being handled, or was replied to or logged.
C24_DroppedReplyChannel ==
    /\ \A id \in replyErrors :
            /\ id \in dropped
            /\ \E k \in 1..Len(trace) : trace[k] = Step(id, "submit")
    /\ actor.id = 0 => actor.pc = "recv"
    /\ \A id \in 1..nsent :
            \/ id \in Waiting
            \/ actor.id = id
            \/ id \in DOMAIN replies
            \/ id \in replyErrors

\* a reply failed because its receiver was dropped, and a later command was
\* handled and replied to
C24_Witness ==
    \E id \in replyErrors : \E later \in DOMAIN replies : id < later

\* C25: when the error of a ledger submission is returned to the caller, a
\* transport error has been retried (the batch was sent more than once, and at
\* most 1 + 3 times), and any other error was returned after the first send.
C25_RetryPolicy ==
    (actor.pc = "reply" /\ actor.result = ResultErr("ledger")) =>
        IF actor.error \in TransportErrors
        THEN actor.sends > 1 /\ actor.sends <= 4
        ELSE actor.sends = 1

\* the CreateNamespace operations the ledger has accepted
LedgerNamespaces ==
    {op \in UNION {{apiLedger[i][k] : k \in 1..Len(apiLedger[i])} :
                        i \in 1..Len(apiLedger)} : op.type = "CreateNamespace"}

\* C26: creating a namespace that is present changes nothing: the ledger and
\* the projection never hold two namespaces of the same name, the namespace
\* created first keeps its id, name and uuid.
C26_CreateNamespaceNoOp ==
    /\ \A a, b \in LedgerNamespaces : a.name = b.name => a = b
    /\ \A i, j \in 1..Len(store.namespace) :
            store.namespace[i].name = store.namespace[j].name => i = j

\* C27: every operation placed in a submission body is read back by from_json
\* without a panic, equal to the operation that to_json encoded, and encoding
\* the operation read back gives the same body entry again.
C27_OperationCodecRoundTrip ==
    (request # NoRequest /\ deserialize_submission(request.payload).ok) =>
        \A i \in 1..Len(request.batch) :
            LET json == deserialize_submission(request.payload).submission.body[i]
            IN  /\ ~FromJsonPanics(json)
                /\ OperationFromJson(json) = request.batch[i]
                /\ OperationToJson(OperationFromJson(json)) = json

\* to_json(m) compacted, then apply_json_ld into an empty model
RoundTrip(m, h) == ApplyInputs(EmptyModel, {CompactNode(n) : n \in ToJson(m, h)})

\* C28: decoding the linked-data encoding of a reachable model into an empty
\* model gives the model back: the same resources, scalar fields and edges.
C28_ModelRoundTrip == \A h \in HashOrders : RoundTrip(model, h) = model

\* C29: two distinct pairs (namespace, resource) never get the same address,
\* the hash being free of collisions, and the address of a pair is the same on
\* every replica whatever else the replica has computed.
C29_AddressInjectivity ==
    \A r1, r2 \in Replicas :
        \A a \in DOMAIN addressed[r1] : \A b \in DOMAIN addressed[r2] :
            /\ a # b => addressed[r1][a] # addressed[r2][b]
            /\ a = b => addressed[r1][a] = addressed[r2][b]

\* C30: apply adds the prov-update event only after set_state_entries has
\* returned Ok: every add_event call comes after a set_state_entries call, and
\* when apply returned at a failed set_state_entries, or before it, no event
\* was added.
C30_EventAfterState ==
    /\ \A i \in 1..Len(tpCalls) :
            tpCalls[i] = "add_event" =>
                \E j \in 1..(i - 1) : tpCalls[j] = "set_state_entries"
    /\ tpResult.stage \in {"decode", "get_state", "process", "set_state"} =>
            /\ \A i \in 1..Len(tpCalls) : tpCalls[i] # "add_event"
            /\ ctx.events = tpPrev.events
    /\ ctx.events # tpPrev.events =>
            /\ tpResult.stage = "done"
            /\ \E i \in 1..Len(tpCalls) : tpCalls[i] = "set_state_entries"

\* set_state_entries failed with entries to write, after an earlier
\* transaction had its event added
C30_Witness ==
    /\ tpResult.stage = "set_state"
    /\ tpResult.pending # {}
    /\ Len(ctx.events) > 0

\* the operations of a batch submitted one by one, each in a transaction of
\* its own that the processor handles with no failure
RECURSIVE OneByOne(_, _, _)
OneByOne(c, transactions, i) ==
    IF i > Len(transactions) THEN c
    ELSE OneByOne(
            HandlerApply(c,
                         MakeSawtoothTransaction(MakeTxAddresses(<<transactions[i]>>),
                                                 MakeTxAddresses(<<transactions[i]>>),
                                                 <<transactions[i]>>, i),
                         [fail |-> "none", at |-> 0,
                          h |-> CHOOSE h \in HashOrders : TRUE]).ctx,
            transactions, i + 1)

ApiResponseOf(result) ==
    IF result.ok THEN [variant |-> "Prov", root |-> result.value]
    ELSE [variant |-> "Err", root |-> result.value]

\* transaction_context: a Submission is unwrapped, any other response reaches
\* unreachable!()
transaction_context(res) ==
    IF res.variant = "Submission" THEN "Submission" ELSE "unreachable"

\* C32: a successful reply to a command of a mutation resolver (here: create
\* agent) is a Submission, so that transaction_context never reaches its
\* unreachable!() branch
C32_MutationRepliesSubmission ==
    (actor.pc = "reply" /\ actor.cmd.type = "AgentCreate" /\ actor.result.ok)
        => transaction_context(ApiResponseOf(actor.result)) # "unreachable"


\* C33: get_last_offset returns the offset of the most recent set_last_offset
\* call, and none only when no offset was ever stored
C33_LastOffset ==
    /\ (lastOffset # None /\ Unwrap(lastOffset).kind = "Identity")
            => get_last_offset(ledgersync) = {lastOffset}
    /\ (None \in get_last_offset(ledgersync)) => DOMAIN ledgersync = {}


\* C34: in every state of the projection at most one agent row has the current
\* flag set
C34_SingleCurrentAgent == Cardinality(CurrentRows(proj)) <= 1

\* a use_agent made another agent current than the one that was
C34_Witness ==
    /\ hist # <<>>
    /\ hist[Len(hist)].cmd.type = "AgentUse" /\ hist[Len(hist)].ok
    /\ CurrentRows(projPrev) # {}
    /\ CurrentRows(proj) # {}
    /\ CurrentRows(proj) # CurrentRows(projPrev)

\* C35: after a use_agent that returned success get_current_agent returns the
\* agent of that name in that namespace; a use_agent that names no agent fails
\* and the agent that was current stays current
C35_UseAgentSelects ==
    (hist # <<>> /\ hist[Len(hist)].cmd.type = "AgentUse") =>
        LET h == hist[Len(hist)]
            named == NamedRowsOf(projPrev, projPrev.agent, h.cmd.name, h.cmd.namespace)
        IN  /\ h.ok => /\ get_current_agent(proj) # None
                        /\ Unwrap(get_current_agent(proj)).name = h.cmd.name
                        /\ Unwrap(get_current_agent(proj)).namespace_id
                                = namespace_by_name(proj, h.cmd.namespace).rowid
            /\ (~NamespaceFound(projPrev, h.cmd.namespace) \/ named = {})
                    => /\ ~h.ok
                       /\ get_current_agent(proj) = get_current_agent(projPrev)


\* the replies the actor has sent for command id
RepliesSent(id) == {k \in 1..Len(trace) : trace[k] = Step(id, "reply")}

\* C36: provided every ledger submit returns, every command accepted into the
\* mailbox is eventually replied to, unless its caller has given up waiting;
\* the actor sends one reply per command, and
\* the reply a caller receives is the result of the command the actor was
\* handling for it and is never replaced
C36_ExactlyOneReply ==
    /\ [](\A id \in 1..nsent : Cardinality(RepliesSent(id)) <= 1)
    /\ [][/\ \A id \in DOMAIN replies : id \in DOMAIN replies' /\ replies'[id] = replies[id]
          /\ \A id \in DOMAIN replies' \ DOMAIN replies :
                /\ actor.id = id
                /\ replies'[id] = actor.result
                /\ RepliesSent(id) = {}]_vars
    /\ \A id \in 1..MaxLiveCommands :
            ([]<>(~AwaitingSubmit))
                => ((id \in Waiting) ~> (id \in DOMAIN replies \/ id \in dropped))

\* two commands were waiting in the mailbox together and each caller has its reply
C36_Witness ==
    /\ DOMAIN replies = {1, 2}
    /\ \E k \in 1..Len(trace) : trace[k] = Step(2, "reply")
    /\ dropped = {}


\* C37: once every ApiDispatch handle outside the actor has been dropped and the
\* mailbox is empty, the receive of the actor returns none, and the loop ends
C37_ActorShutdown ==
    (handles = 0 /\ mailbox = <<>> /\ actor.pc = "recv")
        => Recv(mailbox, handles + ActorSenders) = "none"


\* C39: the metadata of a policy is stored at policy_meta_address(id), which is
\* not the address of the binary of the policy, so that writing the metadata
\* never overwrites the binary
C39_PolicyMetaAddress ==
    \A a \in DOMAIN policyState :
        policyState[a].kind = "meta" =>
            /\ a = policy_meta_address(policyState[a].id)
            /\ a # policy_address(policyState[a].id)


\* the rows of the projection with the name of a namespace
NamespaceRows(st, name) == RowsWhere(st.namespace, LAMBDA r : r.name = name)

C40_CreateAgentKeepsKey ==
    (/\ lastOp.type = "CreateAgent"
     /\ ContainsKey(prev.agents, lastOp.id)
     /\ prev.agents[lastOp.id].publickey # None) =>
        /\ model.agents[lastOp.id].publickey = prev.agents[lastOp.id].publickey
        /\ model.was_associated_with = prev.was_associated_with
        /\ model.used = prev.used
        /\ model.was_generated_by = prev.was_generated_by

====
